---------------------------- MODULE Spec2Model ----------------------------
(***************************************************************************)
(* TP2.0 diagnostics gateway: the TP2Protocol channel                      *)
(* (src/tp2/tp2_protocol.py) and the TP2Service scheduler / command        *)
(* handler (src/tp2/tp2_worker.py, lines 1-359; the text after line 359 of *)
(* that file is a stale duplicate of the loop body and is not modelled).   *)
(*                                                                         *)
(* Bytes are naturals 0..255 written in decimal; the hexadecimal value of  *)
(* the source is given in the comment next to each use.                    *)
(***************************************************************************)
EXTENDS Integers, Sequences, FiniteSets, TLC

(***************************************************************************)
(* Bounds of the exploration.                                              *)
(***************************************************************************)
\* highest reference count an ADD is allowed to reach in the exploration
MaxCount == 2
\* a session is polled in the scheduler specification only while its
\* channel's seq_tx is below this value (the wrap 15 -> 0 is explored in
\* SpecChan, which drives one channel without this cap)
MaxSeq == 3
\* number of tester ids handed out before session creation stops being explored
MaxTesters == 2

(***************************************************************************)
(* Program constants.                                                      *)
(***************************************************************************)
FIRST_TESTER_ID == 768          \* 0x300, tp2_worker.py:61
SEQ_MOD == 16                   \* tp2_protocol.py:304
ACK_BASE == 176                 \* 0xB0, tp2_protocol.py:317
DISCONNECT_OP == 168            \* 0xA8, tp2_protocol.py:175
KEEPALIVE_OP == 163             \* 0xA3, tp2_protocol.py:404
PARAM_ACK == 161                \* 0xA1, tp2_protocol.py:161
WAIT_93 == 147                  \* 0x93, tp2_protocol.py:416
SETUP_REPLY == 208              \* 0xD0, tp2_protocol.py:112
NEG_RESPONSE == 127             \* 0x7F, tp2_worker.py:113
READ_BLOCK == 33                \* 0x21, tp2_worker.py:310
READ_BLOCK_OK == 97             \* 0x61, tp2_worker.py:312
START_SESSION == 16             \* 0x10, tp2_worker.py:112
SESSION_TYPE == 137             \* 0x89, tp2_worker.py:112

(***************************************************************************)
(* Python helpers.                                                         *)
(***************************************************************************)
Min(a, b) == IF a <= b THEN a ELSE b
Max(a, b) == IF a >= b THEN a ELSE b

\* b & 0xF0 and b & 0x0F on a byte
HighNibble(b) == (b \div 16) * 16
LowNibble(b) == b % 16

\* data[:n] of Python, n possibly negative
Prefix(data, n) ==
    IF n >= 0 THEN SubSeq(data, 1, Min(n, Len(data)))
    ELSE SubSeq(data, 1, Max(Len(data) + n, 0))

\* data[k:] of Python for k >= 0 (k is a 0-based index)
From(data, k) == SubSeq(data, k + 1, Len(data))

\* the frame the next _recv returns: an empty sequence is "no frame in time"
\* (None); every caller tests the frame with `if msg` / `if not msg`, which
\* an empty data list fails exactly like None
NextFrame(rx) == IF rx = << >> THEN << >> ELSE Head(rx)
Rest(rx) == IF rx = << >> THEN << >> ELSE Tail(rx)


(***************************************************************************)
(* TP2Protocol (src/tp2/tp2_protocol.py).  A channel is a record; every    *)
(* method is an operator from the channel, its arguments and the frames    *)
(* the bus delivers to the successive _recv calls (rx) to the channel      *)
(* afterwards, the outcome and the frames sent (tx).                       *)
(*                                                                         *)
(* fault is what the CAN driver does at the first bus access of the call:  *)
(* "none", "send_error" (can.CanError in bus.send, which _send turns into  *)
(* TP2Error) or "crash" (an exception that is not a TP2Error, e.g. the     *)
(* driver failing in bus.recv, which _recv does not catch).                *)
(***************************************************************************)
Faults == {"none", "send_error", "crash"}

\* __init__, lines 28-41: the fields a channel starts with.  The constructor
\* of tp2_protocol.py declares no tester_id parameter and sets 0x300;
\* tp2_worker.py:75 passes the session's tester id as keyword tester_id,
\* which raises TypeError with this constructor (CreateOutcomes "raise").
\* Where the call is taken to succeed, the channel holds the id passed.
NewProtocol(tester_id) ==
    [bus |-> FALSE, tester_id |-> tester_id, tx_id |-> 0, rx_id |-> 0,
     seq_tx |-> 0, seq_rx |-> 0, connected |-> FALSE]

Frame(id, data) == [id |-> id, data |-> data]

\* open(): can.Bus(...) succeeds (ok) or raises, re-raised as TP2Error
Open(p, ok) ==
    IF ok THEN [p |-> [p EXCEPT !.bus = TRUE], err |-> "none"]
    ELSE [p |-> p, err |-> "tp2error"]

\* disconnect(): best-effort [0xA8] on tx_id, then connected = False
Disconnect(p) ==
    [p |-> [p EXCEPT !.connected = FALSE],
     tx |-> IF p.tx_id # 0 /\ p.bus
            THEN << Frame(p.tx_id, << DISCONNECT_OP >>) >> ELSE << >>]

\* close(): disconnect if connected, shut the bus down, bus = None
Close(p) ==
    LET d == IF p.connected THEN Disconnect(p) ELSE [p |-> p, tx |-> << >>]
    IN [p |-> [d.p EXCEPT !.bus = FALSE], tx |-> d.tx]

\* connect(target_module_id), lines 93-169
Connect(p, module, rx, fault) ==
    LET req == Frame(512, << module, 192, 0, 16, 0, 3, 1 >>)   \* 0x200, C0 00 10 00 03 01
        r1 == NextFrame(rx)
        r2 == NextFrame(Rest(rx))
    IN  IF ~p.bus \/ fault = "crash" THEN [p |-> p, ret |-> "crash", tx |-> << >>]
        ELSE IF fault = "send_error" THEN [p |-> p, ret |-> "tp2error", tx |-> << >>]
        ELSE IF r1 = << >> THEN [p |-> p, ret |-> "false", tx |-> << req >>]
        ELSE IF r1[1] # 0 THEN [p |-> p, ret |-> "false", tx |-> << req >>]
        ELSE IF Len(r1) < 2 THEN [p |-> p, ret |-> "crash", tx |-> << req >>]
        ELSE IF r1[2] # SETUP_REPLY THEN [p |-> p, ret |-> "false", tx |-> << req >>]
        ELSE IF Len(r1) < 6 THEN [p |-> p, ret |-> "crash", tx |-> << req >>]
        ELSE
          LET p1 == [p EXCEPT !.tx_id = r1[6] * 256 + r1[5], !.rx_id = p.tester_id]
              par == Frame(p1.tx_id, << 160, 15, 138, 255, 50, 255 >>) \* A0 0F 8A FF 32 FF
          IN  IF r2 = << >> \/ r2[1] # PARAM_ACK
              THEN [p |-> p1, ret |-> "false", tx |-> << req, par >>]
              ELSE [p |-> [p1 EXCEPT !.connected = TRUE, !.seq_tx = 0, !.seq_rx = 0],
                    ret |-> "true", tx |-> << req, par >>]

\* a _wait_ack that expects the sequence number the request was sent with
ExpectedAckSkipsIncrement(seq_num) == ACK_BASE + (seq_num % SEQ_MOD)
\* the byte _wait_ack(seq_num) accepts, line 317
ExpectedAck(seq_num) == ACK_BASE + ((seq_num + 1) % SEQ_MOD)

\* _wait_ack(seq_num), lines 315-321, on the frame msg that _recv returned
WaitAck(seq_num, msg) == msg # << >> /\ msg[1] = ExpectedAck(seq_num)

\* seq_tx after a request, line 304
NextSeq(seq) == (seq + 1) % SEQ_MOD

\* the ACK exchange of a request: the sequence number the request was
\* sent with, byte 0 of the frame _wait_ack got (-1: none) and whether it
\* was accepted
NoAck == [sent |-> FALSE, before |-> 0, byte |-> -1, accepted |-> FALSE]

RECURSIVE ReadMultiframe(_, _, _, _, _)

\* a reassembly that gives up at a wait frame
WaitFrameFails(p, more, buffer, expected_len, tx) ==
    [p |-> p, err |-> "tp2error", resp |-> << >>, tx |-> tx, ack |-> NoAck]

\* lines 390-395, a frame 0x9N: a warning is logged, end_time (read nowhere)
\* is set, and the loop goes on to the next _recv, which waits T1 afresh as
\* every _recv of the loop does
WaitFrameSeen(p, more, buffer, expected_len, tx) ==
    ReadMultiframe(p, more, buffer, expected_len, tx)

\* _read_multiframe_response(), lines 323-398
ReadMultiframe(p, rx, buffer, expected_len, tx) ==
    LET msg == NextFrame(rx)
        more == Rest(rx)
    IN  IF msg = << >>
        THEN [p |-> p, err |-> "tp2error", resp |-> << >>, tx |-> tx, ack |-> NoAck]
        ELSE IF HighNibble(msg[1]) = ACK_BASE
        THEN ReadMultiframe(p, more, buffer, expected_len, tx)
        ELSE IF msg[1] = KEEPALIVE_OP
        THEN ReadMultiframe(p, more, buffer, expected_len,
                            Append(tx, Frame(p.tx_id, << PARAM_ACK >>)))
        ELSE IF msg[1] = DISCONNECT_OP
        THEN LET d == Disconnect(p)
             IN [p |-> d.p, err |-> "tp2error", resp |-> << >>, tx |-> tx \o d.tx,
                 ack |-> NoAck]
        ELSE IF HighNibble(msg[1]) = 16                         \* 0x1N
        THEN IF Len(msg) < 4
             THEN ReadMultiframe(p, more, buffer, expected_len, tx)
             ELSE LET cur_len == msg[2] * 256 + msg[3]
                      exp == IF expected_len = 0 THEN cur_len ELSE expected_len
                      data == From(msg, 3)
                      needed == exp - Len(buffer)
                      part == IF Len(data) > needed THEN Prefix(data, needed) ELSE data
                      buf == buffer \o part
                      ack == Frame(p.tx_id,
                                   << ACK_BASE + ((LowNibble(msg[1]) + 1) % SEQ_MOD) >>)
                  IN  IF Len(buf) >= exp
                      THEN [p |-> p, err |-> "none", resp |-> buf,
                            tx |-> Append(tx, ack), ack |-> NoAck]
                      ELSE ReadMultiframe(p, more, buf, exp, Append(tx, ack))
        ELSE IF HighNibble(msg[1]) = 32                         \* 0x2N
        THEN ReadMultiframe(p, more, buffer \o From(msg, 1), expected_len, tx)
        ELSE IF HighNibble(msg[1]) = 144                        \* 0x9N
        THEN WaitFrameSeen(p, more, buffer, expected_len, tx)
        ELSE ReadMultiframe(p, more, buffer, expected_len, tx)  \* unknown type

\* send_kvp_request(payload), lines 180-313.  ack is the ACK exchange.

SendKvpRequest(p, payload, rx, fault) ==
    IF ~p.connected
    THEN [p |-> p, err |-> "tp2error", resp |-> << >>, tx |-> << >>, ack |-> NoAck]
    ELSE IF ~p.bus \/ fault = "crash"
    THEN [p |-> p, err |-> "crash", resp |-> << >>, tx |-> << >>, ack |-> NoAck]
    ELSE
      LET frame == Frame(p.tx_id, << 16 + p.seq_tx, 0, Len(payload) >> \o payload)
          p1 == [p EXCEPT !.seq_tx = NextSeq(p.seq_tx)]
          msg == NextFrame(rx)
          acked == WaitAck(p1.seq_tx - 1, msg)
          ack == [sent |-> TRUE, before |-> p.seq_tx,
                  byte |-> IF msg = << >> THEN -1 ELSE msg[1], accepted |-> acked]
      IN  IF fault = "send_error"
          THEN [p |-> p1, err |-> "tp2error", resp |-> << >>, tx |-> << >>, ack |-> NoAck]
          ELSE IF ~acked
          THEN [p |-> p1, err |-> "tp2error", resp |-> << >>, tx |-> << frame >>,
                ack |-> ack]
          ELSE [ReadMultiframe(p1, Rest(rx), << >>, 0, << frame >>) EXCEPT !.ack = ack]

\* send_keep_alive(), lines 400-423: never raises
SendKeepAlive(p, rx, fault) ==
    LET ping == Frame(p.tx_id, << KEEPALIVE_OP >>)
        resp == NextFrame(rx)
    IN  IF p.tx_id = 0 THEN [p |-> p, ret |-> FALSE, tx |-> << >>]
        ELSE IF ~p.bus \/ fault # "none" THEN [p |-> p, ret |-> FALSE, tx |-> << >>]
        ELSE IF resp = << >> THEN [p |-> p, ret |-> FALSE, tx |-> << ping >>]
        ELSE IF resp[1] = DISCONNECT_OP
        THEN LET d == Disconnect(p)
             IN [p |-> d.p, ret |-> FALSE, tx |-> << ping >> \o d.tx]
        ELSE [p |-> p, ret |-> resp[1] \in {PARAM_ACK, WAIT_93}, tx |-> << ping >>]


(***************************************************************************)
(* TP2Service (src/tp2/tp2_worker.py).                                     *)
(***************************************************************************)
VARIABLES
    running,         \* self.running: the enabled flag
    ignition_sub,    \* self.ignition_sub is not None
    sessions,        \* self.sessions: module id -> session
    order,           \* the keys of self.sessions in insertion order
    next_tester_id,  \* self.next_tester_id
    pc,              \* position of run(): "ignition", "commands", "gate", "poll"
    todo,            \* what is left of active_modules in the current pass
    last_kl15,       \* level carried by the last POWER_STATUS message handled
    resumed,         \* the service was disabled and enabled again with the
                     \* subscriptions it has now
    obs,             \* what the last step sent out: reply, read, sample
    streak,          \* the group read last and its consecutive failed reads
    since3,          \* ms since that group's third consecutive failure, at
                     \* most (-1: it has not failed three times in a row)
    chan,            \* a channel driven directly (SpecChan), as the probe scripts do
    chan_ack,        \* the ACK exchange of the last request on chan
    chan_op,         \* the last call on chan: the channel before it, the
                     \* frames the bus delivered, the outcome, the frames sent
    rep_waiting,     \* the REP socket holds a request that got no reply
    coding,          \* a call of the decoder (SpecCoding): its input bytes
                     \* and, once it has returned, the items it returned
    reading          \* a request on chan taken one _recv at a time
                     \* (SpecRead): the locals of the reassembly loop

vars == << running, ignition_sub, sessions, order, next_tester_id, pc, todo,
           last_kl15, resumed, obs, streak, since3, rep_waiting,
           chan, chan_ack, chan_op, coding, reading >>

svc_vars == << running, ignition_sub, sessions, order, next_tester_id, pc, todo,
               last_kl15, resumed, obs, streak, since3, rep_waiting >>

\* the (module, group) pairs the clients of the exploration subscribe to
OneModule == {<< 1, 1 >>, << 1, 2 >>}
TwoModules == {<< 1, 1 >>, << 2, 1 >>}

\* a command parameter as msg.get() returns it: an integer, None, or a
\* value int() rejects
IntArg(v) == [k |-> "int", v |-> v]
NoneArg == [k |-> "none", v |-> 0]
BadArg == [k |-> "bad", v |-> 0]

\* ---- what a step sends out ---------------------------------------------
NoReply == [status |-> "none", message |-> "", count |-> -1, enabled |-> "absent",
            sessions |-> << >>]
NoCmd == [cmd |-> "none", module |-> NoneArg, group |-> NoneArg]
NoRead == [mod |-> 0, grp |-> 0, result |-> "none", resp |-> << >>]
NoPub == [module |-> 0, group |-> 0]
\* recovered: the step ended in the handler of run(), lines 348-356;
\* tx: the frames process_commands() or process_ignition() sent on the bus
\* (the frames of a polling tick are not kept)
NoObs == [cmd |-> NoCmd, reply |-> NoReply, read |-> NoRead, pub |-> NoPub,
          recovered |-> FALSE, tx |-> << >>]

Reply(status, message) == [NoReply EXCEPT !.status = status, !.message = message]

\* ---- dict helpers --------------------------------------------------------
\* d with key k set to v (d[k] = v)
Put(d, k, v) == [x \in DOMAIN d \cup {k} |-> IF x = k THEN v ELSE d[x]]
\* del d[k]
Del(d, k) == [x \in DOMAIN d \ {k} |-> d[x]]
EmptyDict == [x \in {} |-> 0]

\* list.remove(x): the first occurrence of x is dropped
RECURSIVE RemoveFirst(_, _)
RemoveFirst(list, x) ==
    IF list = << >> THEN << >>
    ELSE IF Head(list) = x THEN Tail(list)
    ELSE << Head(list) >> \o RemoveFirst(Tail(list), x)

InList(list, x) == \E i \in 1 .. Len(list) : list[i] = x

\* ---- sessions ------------------------------------------------------------
\* the session dict built at lines 82-90
NewSession(tester_id, proto) ==
    [protocol |-> proto, subs |-> EmptyDict, groups_list |-> << >>, idx |-> 0,
     tester_id |-> tester_id, connected |-> FALSE]

\* how creating the channel of a new session ends (lines 75-80):
\*   "ok"        the channel is built and its bus opens
\*   "open_fail" proto.open() raises, _get_or_create_session returns None
\*   "raise"     the constructor call raises (TP2Protocol.__init__ of
\*               tp2_protocol.py:28 declares no tester_id parameter); the
\*               exception leaves _get_or_create_session and is caught
\*               at line 255
\* "ok" and "open_fail" are what lines 76-92 do once the constructor call
\* of line 75 returns a channel.
CreateOutcomes == {"ok", "open_fail", "raise"}

\* _get_or_create_session(module_id), lines 65-92, on the pair
\* (sessions, order, next_tester_id); session is "none" for None
GetOrCreateSession(S, module_id, outcome) ==
    IF module_id \in DOMAIN S.sessions
    THEN [S |-> S, session |-> "found"]
    ELSE LET S1 == [S EXCEPT !.next_tester_id = S.next_tester_id + 1]
         IN  IF outcome = "raise" THEN [S |-> S1, session |-> "raise"]
             ELSE IF outcome = "open_fail" THEN [S |-> S1, session |-> "none"]
             ELSE [S |-> [S1 EXCEPT
                            !.sessions = Put(S.sessions, module_id,
                                NewSession(S.next_tester_id,
                                    Open(NewProtocol(S.next_tester_id), TRUE).p)),
                            !.order = Append(S.order, module_id)],
                   session |-> "found"]

\* an ADD that counts a new group and does not append it to the list
AddGroupForgetsList(sess, grp) ==
    IF grp \in DOMAIN sess.subs
    THEN [sess EXCEPT !.subs = Put(sess.subs, grp, sess.subs[grp] + 1)]
    ELSE [sess EXCEPT !.subs = Put(sess.subs, grp, 1)]
\* the reference counting of ADD, lines 192-198, on one session
AddGroup(sess, grp) ==
    IF grp \in DOMAIN sess.subs
    THEN [sess EXCEPT !.subs = Put(sess.subs, grp, sess.subs[grp] + 1)]
    ELSE [sess EXCEPT !.subs = Put(sess.subs, grp, 1),
                      !.groups_list = Append(sess.groups_list, grp)]

\* a REMOVE without the cursor reset of lines 222-224
RemoveGroupKeepsCursor(sess, grp) ==
    LET count == sess.subs[grp] - 1
    IN  IF count <= 0
        THEN [sess EXCEPT !.subs = Del(sess.subs, grp),
                          !.groups_list = RemoveFirst(sess.groups_list, grp)]
        ELSE [sess EXCEPT !.subs = Put(sess.subs, grp, count)]
\* the reference counting of REMOVE, lines 213-224, on one session that
\* has grp in subs
RemoveGroup(sess, grp) ==
    LET count == sess.subs[grp] - 1
        list == RemoveFirst(sess.groups_list, grp)
    IN  IF count <= 0
        THEN IF InList(sess.groups_list, grp)
             THEN [sess EXCEPT !.subs = Del(sess.subs, grp),
                               !.groups_list = list,
                               !.idx = IF sess.idx >= Len(list) THEN 0 ELSE sess.idx]
             ELSE [sess EXCEPT !.subs = Del(sess.subs, grp)]
        ELSE [sess EXCEPT !.subs = Put(sess.subs, grp, count)]

\* the subscription part of the service state
SubState == [sessions |-> sessions, order |-> order, next_tester_id |-> next_tester_id]


\* ---- process_commands(), lines 153-259 ----------------------------------
\* Each command is an operator from the subscription state and the
\* parameters to the subscription state afterwards and the reply.

\* an ADD that gets the session before it converts the group
AddCmdCreatesFirst(S, mod, grp, outcome) ==
    IF mod.k = "none" \/ grp.k = "none"
    THEN [S |-> S, reply |-> Reply("error", "Unknown command")]
    ELSE IF mod.k = "bad"
    THEN [S |-> S, reply |-> Reply("error", "invalid literal for int()")]
    ELSE LET g == GetOrCreateSession(S, mod.v, outcome)
         IN  IF g.session = "raise"
             THEN [S |-> g.S, reply |-> Reply("error", "unexpected keyword argument")]
             ELSE IF grp.k = "bad"
             THEN [S |-> g.S, reply |-> Reply("error", "invalid literal for int()")]
             ELSE IF g.session = "none"
             THEN [S |-> g.S, reply |-> Reply("error", "Failed to create session")]
             ELSE LET sess == AddGroup(g.S.sessions[mod.v], grp.v)
                  IN [S |-> [g.S EXCEPT !.sessions[mod.v] = sess],
                      reply |-> [Reply("ok", "Group added") EXCEPT
                                   !.count = sess.subs[grp.v]]]
\* ADD, lines 182-202
AddCmd(S, mod, grp, outcome) ==
    IF mod.k = "none" \/ grp.k = "none"
    THEN [S |-> S, reply |-> Reply("error", "Unknown command")]
    ELSE IF mod.k = "bad" \/ grp.k = "bad"
    THEN [S |-> S, reply |-> Reply("error", "invalid literal for int()")]
    ELSE LET g == GetOrCreateSession(S, mod.v, outcome)
         IN  IF g.session = "raise"
             THEN [S |-> g.S, reply |-> Reply("error", "unexpected keyword argument")]
             ELSE IF g.session = "none"
             THEN [S |-> g.S, reply |-> Reply("error", "Failed to create session")]
             ELSE LET sess == AddGroup(g.S.sessions[mod.v], grp.v)
                  IN [S |-> [g.S EXCEPT !.sessions[mod.v] = sess],
                      reply |-> [Reply("ok", "Group added") EXCEPT
                                   !.count = sess.subs[grp.v]]]

\* REMOVE, lines 204-230
RemoveCmd(S, mod, grp) ==
    IF mod.k = "none" \/ grp.k = "none"
    THEN [S |-> S, reply |-> Reply("error", "Unknown command")]
    ELSE IF mod.k = "bad" \/ grp.k = "bad"
    THEN [S |-> S, reply |-> Reply("error", "invalid literal for int()")]
    ELSE IF mod.v \notin DOMAIN S.sessions
    THEN [S |-> S, reply |-> Reply("error", "Module not active")]
    ELSE IF grp.v \notin DOMAIN S.sessions[mod.v].subs
    THEN [S |-> S, reply |-> Reply("warning", "Group not found")]
    ELSE [S |-> [S EXCEPT !.sessions[mod.v] = RemoveGroup(S.sessions[mod.v], grp.v)],
          reply |-> [Reply("ok", "Group removed") EXCEPT
                       !.count = S.sessions[mod.v].subs[grp.v] - 1]]

\* CLEAR, lines 232-239: every channel is closed, the map is replaced
ClearCmd(S) ==
    [S |-> [sessions |-> EmptyDict, order |-> << >>,
            next_tester_id |-> FIRST_TESTER_ID],
     reply |-> Reply("ok", "Cleared all")]

\* STATUS, lines 165-180
StatusReply(S, enabled) ==
    [Reply("ok", "") EXCEPT
       !.enabled = IF enabled THEN "true" ELSE "false",
       !.sessions = [i \in 1 .. Len(S.order) |->
                       [module |-> S.order[i],
                        connected |-> S.sessions[S.order[i]].connected,
                        groups |-> DOMAIN S.sessions[S.order[i]].subs]]]

\* a disconnect loop that also drops the subscriptions of the sessions it
\* disconnects
DisconnectAllDropsGroups(sess_map) ==
    [m \in DOMAIN sess_map |->
        IF sess_map[m].connected
        THEN [sess_map[m] EXCEPT !.protocol = Disconnect(sess_map[m].protocol).p,
                                 !.connected = FALSE, !.subs = EmptyDict,
                                 !.groups_list = << >>, !.idx = 0]
        ELSE sess_map[m]]
\* a disconnect loop that clears the flags and never calls disconnect()
DisconnectAllFlagsOnly(sess_map) ==
    [m \in DOMAIN sess_map |->
        IF sess_map[m].connected
        THEN [sess_map[m] EXCEPT !.connected = FALSE]
        ELSE sess_map[m]]
\* a disconnect loop that leaves the connected flags set
DisconnectAllKeepsFlag(sess_map) ==
    [m \in DOMAIN sess_map |->
        IF sess_map[m].connected
        THEN [sess_map[m] EXCEPT !.protocol = Disconnect(sess_map[m].protocol).p]
        ELSE sess_map[m]]
\* the loop "if sess['connected']: disconnect(); sess['connected'] = False"
\* of lines 143-147 and 248-251
DisconnectAll(sess_map) ==
    [m \in DOMAIN sess_map |->
        IF sess_map[m].connected
        THEN [sess_map[m] EXCEPT !.protocol = Disconnect(sess_map[m].protocol).p,
                                 !.connected = FALSE]
        ELSE sess_map[m]]

\* a recovery that also forgets what the sessions subscribe to
CloseAllForgetsGroups(sess_map) ==
    [m \in DOMAIN sess_map |->
        [sess_map[m] EXCEPT !.protocol = Close(sess_map[m].protocol).p,
                            !.connected = FALSE,
                            !.subs = EmptyDict, !.groups_list = << >>, !.idx = 0]]

\* the recovery of lines 351-355: every channel closed, every flag cleared
CloseAll(sess_map) ==
    [m \in DOMAIN sess_map |->
        [sess_map[m] EXCEPT !.protocol = Close(sess_map[m].protocol).p,
                            !.connected = FALSE]]

\* the frames sent while the sessions are gone through in the order of the
\* dict: by close() of every channel (closing, lines 234-235) or by
\* disconnect() of the channel of every connected session (lines 248-250)
RECURSIVE FramesSent(_, _, _)
FramesSent(sess_map, ord, closing) ==
    IF ord = << >> THEN << >>
    ELSE (IF closing THEN Close(sess_map[Head(ord)].protocol).tx
          ELSE IF sess_map[Head(ord)].connected
          THEN Disconnect(sess_map[Head(ord)].protocol).tx
          ELSE << >>)
         \o FramesSent(sess_map, Tail(ord), closing)

HasGroups(sess_map) == \E m \in DOMAIN sess_map : sess_map[m].groups_list # << >>


\* ---- what the ECU and the drivers do during one polling tick ------------
\* the ACK an ECU sends for a request carrying sequence number seq
EcuAck(seq) == << ACK_BASE + ((seq + 1) % SEQ_MOD) >>

\* setup reply [00 D0 00 03 40 07 00]: the ECU assigns tx id 0x740
SetupFrame == << 0, SETUP_REPLY, 0, 3, 64, 7, 0 >>

ConnectGood == << SetupFrame, << PARAM_ACK >> >>
ConnectScripts == {ConnectGood, << >>, << SetupFrame >>}

\* replies to StartSession [10 89] sent with sequence number seq
StartGood(seq) == << EcuAck(seq), << 16, 0, 2, 80, SESSION_TYPE >> >>       \* 50 89

\* replies to ReadBlock [21 grp] sent with sequence number seq
ReadGood(grp, seq) ==
    << EcuAck(seq), << 16, 0, 5, READ_BLOCK_OK, grp, 1, 10, 20 >> >>
ReadNegative(seq) ==
    << EcuAck(seq), << 16, 0, 3, NEG_RESPONSE, READ_BLOCK, 18 >> >>

KeepAliveGood == << << PARAM_ACK >> >>
KeepAliveScripts == {KeepAliveGood, << >>, << << DISCONNECT_OP >> >>}

\* One tick's inputs: open_ok (can.Bus opens), conn (frames for connect),
\* conn_fault, start (frames for StartSession), ka1 (keep-alive after
\* StartSession), read ("good", "negative", "silent", "disconnect": the
\* ECU's answer to ReadBlock), read_fault, ka2 (closing keep-alive or the
\* idle keep-alive), pub_ok (the publisher accepts the sample).
GoodIO ==
    [open_ok |-> TRUE, conn |-> ConnectGood, conn_fault |-> "none", start |-> "good",
     ka1 |-> KeepAliveGood, read |-> "good", read_fault |-> "none",
     ka2 |-> KeepAliveGood, pub_ok |-> TRUE]

\* the exploration varies one input of a tick at a time
TickIOs ==
    {GoodIO, [GoodIO EXCEPT !.open_ok = FALSE], [GoodIO EXCEPT !.pub_ok = FALSE]}
    \cup {[GoodIO EXCEPT !.conn = c] : c \in ConnectScripts}
    \cup {[GoodIO EXCEPT !.conn_fault = f] : f \in Faults}
    \cup {[GoodIO EXCEPT !.start = x] : x \in {"silent", "negative"}}
    \cup {[GoodIO EXCEPT !.ka1 = k] : k \in KeepAliveScripts}
    \cup {[GoodIO EXCEPT !.read = x] : x \in {"negative", "silent", "disconnect"}}
    \cup {[GoodIO EXCEPT !.read_fault = f] : f \in Faults}
    \cup {[GoodIO EXCEPT !.ka2 = k] : k \in KeepAliveScripts}

StartRx(kind, seq) ==
    IF kind = "good" THEN StartGood(seq)
    ELSE IF kind = "negative"
    THEN << EcuAck(seq), << 16, 0, 3, NEG_RESPONSE, START_SESSION, 18 >> >>
    ELSE << >>

\* "g1_negative" and "g1_silent": an ECU that serves every group but
\* group 1, which it rejects or does not acknowledge; "mismatch": the
\* positive response of the group after the one requested; "empty": a
\* response of declared length 0; "short": the one byte 61
ReadRx(kind, grp, seq) ==
    IF kind = "good" THEN ReadGood(grp, seq)
    ELSE IF kind = "g1_negative"
    THEN IF grp = 1 THEN ReadNegative(seq) ELSE ReadGood(grp, seq)
    ELSE IF kind = "g1_silent"
    THEN IF grp = 1 THEN << >> ELSE ReadGood(grp, seq)
    ELSE IF kind = "negative" THEN ReadNegative(seq)
    ELSE IF kind = "disconnect" THEN << EcuAck(seq), << DISCONNECT_OP >> >>
    ELSE IF kind = "mismatch"
    THEN << EcuAck(seq), << 16, 0, 5, READ_BLOCK_OK, grp + 1, 1, 10, 20 >> >>
    ELSE IF kind = "empty" THEN << EcuAck(seq), << 16, 0, 0, 170 >> >>
    ELSE IF kind = "short" THEN << EcuAck(seq), << 16, 0, 1, READ_BLOCK_OK >> >>
    ELSE << >>

\* ---- run(): one session's turn in a pass, lines 284-340 -----------------
\* the one element of a singleton set: Only({F(x) : x \in {e}}) is F(e)
\* with e evaluated once
Only(S) == CHOOSE x \in S : TRUE

\* _ensure_connected(module_id), lines 94-124, in the order of the code:
\* open the bus if it is closed, connect, StartSession, keep-alive.  ret
\* is "true", "false" or "crash" (an exception that is not a TP2Error
\* leaves the method).
\* lines 112-119, q the outcome of send_kvp_request([0x10, 0x89])
EnsureAfterStart(sess, q, io) ==
    IF q.err = "crash"
    THEN [s |-> [sess EXCEPT !.protocol = q.p], ret |-> "crash"]
    ELSE IF q.err = "tp2error"
    THEN [s |-> [sess EXCEPT !.protocol = Disconnect(q.p).p], ret |-> "false"]
    ELSE IF q.resp # << >> /\ q.resp[1] # NEG_RESPONSE
    THEN [s |-> [sess EXCEPT !.protocol = SendKeepAlive(q.p, io.ka1, "none").p,
                             !.connected = TRUE],
          ret |-> "true"]
    ELSE [s |-> [sess EXCEPT !.protocol = q.p], ret |-> "false"]

\* lines 110-122, c the outcome of proto.connect(module_id)
EnsureAfterConnect(sess, c, io) ==
    IF c.ret = "crash"
    THEN [s |-> [sess EXCEPT !.protocol = c.p], ret |-> "crash"]
    ELSE IF c.ret = "tp2error"
    THEN [s |-> [sess EXCEPT !.protocol = Disconnect(c.p).p], ret |-> "false"]
    ELSE IF c.ret = "false"
    THEN [s |-> [sess EXCEPT !.protocol = c.p], ret |-> "false"]
    ELSE Only({EnsureAfterStart(sess, q, io) :
                 q \in {SendKvpRequest(c.p, << START_SESSION, SESSION_TYPE >>,
                                       StartRx(io.start, c.p.seq_tx), "none")}})

\* lines 106-110, o the outcome of opening the bus (or the open bus)
EnsureAfterOpen(sess, module_id, o, io) ==
    IF o.err = "tp2error"
    THEN [s |-> [sess EXCEPT !.protocol = Disconnect(o.p).p], ret |-> "false"]
    ELSE Only({EnsureAfterConnect(sess, c, io) :
                 c \in {Connect(o.p, module_id, io.conn, io.conn_fault)}})

EnsureConnected(sess, module_id, io) ==
    IF sess.connected THEN [s |-> sess, ret |-> "true"]
    ELSE Only({EnsureAfterOpen(sess, module_id, o, io) :
                 o \in {IF sess.protocol.bus
                        THEN [p |-> sess.protocol, err |-> "none"]
                        ELSE Open(sess.protocol, io.open_ok)}})

\* a cursor that stays where it is after a published sample
AdvanceStaysPut(idx, n) == idx
\* the cursor after a published sample, lines 324-325
Advance(idx, n) == IF n > 0 THEN (idx + 1) % n ELSE idx

\* the "safety check on index" of lines 303-304
ClampIdx(idx, n) == IF idx >= n THEN 0 ELSE idx

\* a ReadBlock the tick issued: its outcome and, in resp, what
\* send_kvp_request returned
Read(mod, grp, result) == [mod |-> mod, grp |-> grp, result |-> result, resp |-> << >>]

\* a tick that answers a response it does not publish by giving the
\* channel up
TickUnpublishedResets(s1, mod_id, grp, r, io) ==
    [s |-> [s1 EXCEPT !.protocol = Disconnect(r.p).p, !.connected = FALSE],
     crash |-> FALSE,
     read |-> [Read(mod_id, grp, "negative") EXCEPT !.resp = r.resp],
     pub |-> NoPub]

\* lines 327-331, a response that is not the positive response of grp: a
\* negative response is logged, nothing is published, the keep-alive is sent
TickUnpublished(s1, mod_id, grp, r, io) ==
    [s |-> [s1 EXCEPT !.protocol = SendKeepAlive(r.p, io.ka2, "none").p],
     crash |-> FALSE,
     read |-> [Read(mod_id, grp,
                    IF r.resp # << >> /\ r.resp[1] = NEG_RESPONSE
                    THEN "negative" ELSE "other") EXCEPT !.resp = r.resp],
     pub |-> NoPub]

\* a test that takes the positive response of any group
AcceptedAnyGroup(resp, grp) == resp # << >> /\ resp[1] = READ_BLOCK_OK
\* the test of line 312 on a response of at least two bytes
Accepted(resp, grp) == resp # << >> /\ resp[1] = READ_BLOCK_OK /\ resp[2] = grp

\* The for-loop body of lines 285-340 for one session.  crash: an exception
\* that is not a TP2Error left the body (it is handled at line 348).
\* lines 312-340, r the outcome of send_kvp_request([0x21, grp]) on the
\* session s1
TickAfterRead(s1, mod_id, grp, r, io) ==
    IF r.err = "crash"
    THEN [s |-> [s1 EXCEPT !.protocol = r.p], crash |-> TRUE,
          read |-> Read(mod_id, grp, "crash"), pub |-> NoPub]
    ELSE IF r.err = "tp2error"
    THEN [s |-> [s1 EXCEPT !.protocol = SendKeepAlive(r.p, io.ka2, "none").p],
          crash |-> FALSE, read |-> Read(mod_id, grp, "tp2error"), pub |-> NoPub]
    ELSE IF r.resp # << >> /\ r.resp[1] = READ_BLOCK_OK /\ Len(r.resp) < 2
    THEN [s |-> [s1 EXCEPT !.protocol = r.p], crash |-> TRUE,
          read |-> Read(mod_id, grp, "crash"), pub |-> NoPub]
    ELSE IF Accepted(r.resp, grp)
    THEN IF io.pub_ok
         THEN [s |-> [s1 EXCEPT !.protocol = SendKeepAlive(r.p, io.ka2, "none").p,
                                !.idx = Advance(s1.idx, Len(s1.groups_list))],
               crash |-> FALSE,
               read |-> [Read(mod_id, grp, "ok") EXCEPT !.resp = r.resp],
               pub |-> [module |-> mod_id, group |-> grp]]
         ELSE [s |-> [s1 EXCEPT !.protocol = r.p], crash |-> TRUE,
               read |-> [Read(mod_id, grp, "ok") EXCEPT !.resp = r.resp],
               pub |-> NoPub]
    ELSE TickUnpublished(s1, mod_id, grp, r, io)

\* lines 301-310 on the connected session s1 whose cursor is in range
TickRead(s1, mod_id, grp, io) ==
    Only({TickAfterRead(s1, mod_id, grp, r, io) :
            r \in {SendKvpRequest(s1.protocol, << READ_BLOCK, grp >>,
                                  ReadRx(io.read, grp, s1.protocol.seq_tx),
                                  io.read_fault)}})

\* lines 297-306, e the outcome of _ensure_connected
TickAfterEnsure(e, mod_id, io) ==
    IF e.ret = "crash"
    THEN [s |-> e.s, crash |-> TRUE, read |-> NoRead, pub |-> NoPub]
    ELSE IF e.ret = "false"
    THEN [s |-> e.s, crash |-> FALSE, read |-> NoRead, pub |-> NoPub]
    ELSE Only({TickRead(s1, mod_id, s1.groups_list[s1.idx + 1], io) :
                 s1 \in {[e.s EXCEPT !.idx = ClampIdx(e.s.idx, Len(e.s.groups_list))]}})

Tick(sess, mod_id, io) ==
    IF sess.groups_list = << >>
    THEN [s |-> IF sess.connected
                THEN [sess EXCEPT !.protocol = SendKeepAlive(sess.protocol, io.ka2, "none").p]
                ELSE sess,
          crash |-> FALSE, read |-> NoRead, pub |-> NoPub]
    ELSE Only({TickAfterEnsure(e, mod_id, io) :
                 e \in {EnsureConnected(sess, mod_id, io)}})

\* ---- time and failure bookkeeping of the observer ----------------------
T1_TIMEOUT == 2500       \* ms, tp2_protocol.py:25
CONNECT_TIMEOUT == 1000  \* ms, tp2_protocol.py:107
T3_DELAY == 10           \* ms, tp2_protocol.py:37
SLEEP_MS == 100          \* time.sleep(0.1), tp2_worker.py:343
RECOVER_MS == 5000       \* time.sleep(5), tp2_worker.py:356

\* the cooldown the specification asks for after three failures: 30 s
CooldownMs == 30 * 1000

\* the longest one tick blocks: channel setup (two frames sent, two
\* awaited), StartSession and ReadBlock (a frame sent, ACK and response
\* awaited, the response acknowledged), two keep-alives
TickMaxMs ==
    2 * (T3_DELAY + CONNECT_TIMEOUT)
    + 2 * (2 * T3_DELAY + 2 * T1_TIMEOUT)
    + 2 * (T3_DELAY + T1_TIMEOUT)

\* t ms later, counted up to the cooldown
Later(t, ms) == IF t < 0 THEN t ELSE Min(t + ms, CooldownMs)

NoStreak == [mod |-> 0, grp |-> 0, n |-> 0]

\* the consecutive failed reads of one group after the read `read`: a
\* transport error or a negative response counts, a sample resets; the
\* count stops at 5
Streak(st, read) ==
    IF read.result = "none" THEN st
    ELSE IF read.result = "ok"
    THEN IF read.mod = st.mod /\ read.grp = st.grp THEN NoStreak ELSE st
    ELSE IF read.result \notin {"tp2error", "negative"} THEN st
    ELSE IF read.mod = st.mod /\ read.grp = st.grp
    THEN [st EXCEPT !.n = Min(st.n + 1, 5)]
    ELSE [mod |-> read.mod, grp |-> read.grp, n |-> 1]

(***************************************************************************)
(* The state after TP2Service.__init__ (lines 24-62) and the steps of      *)
(* run() (lines 261-356).                                                  *)
(***************************************************************************)
InitService ==
    /\ running = TRUE
    /\ ignition_sub \in BOOLEAN
    /\ sessions = EmptyDict
    /\ order = << >>
    /\ next_tester_id = FIRST_TESTER_ID
    /\ pc = "ignition"
    /\ todo = << >>
    /\ last_kl15 = "none"
    /\ resumed = FALSE
    /\ obs = NoObs
    /\ streak = NoStreak
    /\ since3 = -1
    /\ rep_waiting = FALSE

(***************************************************************************)
(* TP2Coding (src/tp2/tp2_coding.py).  A decoded value is kept in          *)
(* hundredths (value), which is what round(val, 2) leaves of a number; a   *)
(* value that is a string is kept in text, one character per element.  A   *)
(* unit is a sequence of strings, so that "Type_" and the digits of the    *)
(* type make one unit.                                                     *)
(***************************************************************************)
Abs(n) == IF n < 0 THEN -n ELSE n

\* the integer nearest to n / d (d > 0), a tie going to the even neighbour,
\* as round() does
RoundDiv(n, d) ==
    IF 2 * (n % d) < d THEN n \div d
    ELSE IF 2 * (n % d) > d THEN (n \div d) + 1
    ELSE IF (n \div d) % 2 = 0 THEN n \div d ELSE (n \div d) + 1

\* The formulas of types 6, 21 and 25 multiply by a decimal constant
\* (0.001, 1.421) that no binary float holds exactly.  Where the decimal
\* result lies halfway between two hundredths, round() returns the neighbour
\* the binary product lies nearer to, which RoundDiv does not compute.
FloatTie(t, a, b) ==
    \/ t \in {6, 21} /\ (a * b) % 10 = 5
    \/ t = 25 /\ (500 * a + 129311 * b) % 910 = 455

HexDigits == << "0", "1", "2", "3", "4", "5", "6", "7", "8", "9",
                "A", "B", "C", "D", "E", "F" >>

\* f"{n:02X}" for a byte n
HexByte(n) == << HexDigits[(n \div 16) + 1], HexDigits[(n % 16) + 1] >>

\* f"{n}" for n >= 0
RECURSIVE DecStr(_)
DecStr(n) ==
    IF n < 10 THEN << HexDigits[n + 1] >>
    ELSE DecStr(n \div 10) \o << HexDigits[(n % 10) + 1] >>

Num(v, unit, t) == [value |-> v, text |-> << >>, unit |-> << unit >>, type |-> t]
Raw(text, unit, t) == [value |-> 0, text |-> text, unit |-> unit, type |-> t]

\* the unit f"Type_{t}" of a type without a formula
TYPE_UNIT == "Type_"
TypeUnit(t) == << TYPE_UNIT >> \o DecStr(t)

\* the types decode_value has a formula for
TableTypes ==
    {1, 2, 3, 5, 6, 7, 9, 15, 18, 19, 20, 21, 23, 25, 26, 27, 33, 34, 35, 36, 43,
     52, 56, 66, 67, 83}

\* a decode_value without the else of lines 124-127: val = 0 and unit = ""
\* are returned for a type without a formula
DecodeValueNoFallback(t, a, b) ==
    IF t = 33 THEN Num(IF a # 0 THEN RoundDiv(10000 * b, a) ELSE 10000 * b, "%", t)
    ELSE Num(0, "", t)

\* decode_value(t, a, b), lines 37-133; the unit of types 5 and 26, the
\* degree sign followed by C, is written "C"
DecodeValue(t, a, b) ==
    CASE t = 1 -> Num(20 * a * b, "rpm", t)
      [] t = 2 -> Num(RoundDiv(a * b, 5), "%", t)
      [] t = 20 -> Num(RoundDiv(25 * a * (b - 128), 32), "%", t)
      [] t = 23 -> Num(RoundDiv(25 * a * b, 64), "%", t)
      [] t = 33 -> Num(IF a # 0 THEN RoundDiv(10000 * b, a) ELSE 10000 * b, "%", t)
      [] t = 3 -> Num(RoundDiv(a * b, 5), "deg", t)
      [] t = 9 -> Num(2 * a * (b - 127), "deg", t)
      [] t = 27 -> Num(Abs(b - 128) * a, "deg", t)
      [] t = 34 -> Num((b - 128) * a, "kW", t)
      [] t = 67 -> Num(64000 * a + 250 * b, "deg", t)
      [] t = 5 -> Num(10 * a * (b - 100), "C", t)
      [] t \in {6, 21} -> Num(RoundDiv(a * b, 10), "V", t)
      [] t = 43 -> Num(10 * b + 2550 * a, "V", t)
      [] t = 66 -> Num(RoundDiv(1250 * a * b, 6389), "V", t)
      [] t = 7 -> Num(a * b, "km/h", t)
      [] t = 15 -> Num(a * b, "ms", t)
      [] t = 18 -> Num(4 * a * b, "mbar", t)
      [] t = 19 -> Num(a * b, "l", t)
      [] t = 25 -> Num(RoundDiv(500 * a + 129311 * b, 910), "g/s", t)
      [] t = 26 -> Num(100 * (b - a), "C", t)
      [] t = 35 -> Num(a * b, "l/h", t)
      [] t = 36 -> Raw(DecStr(a) \o << " " >> \o DecStr(b), << "km" >>, t)
      [] t = 52 -> Num(2 * a * b - 100 * a, "Nm", t)
      [] t = 56 -> Num(100 * (a * 256 + b), "WSC", t)
      [] t = 83 -> Num(a * 256 + b, "bar", t)
      [] OTHER -> Raw(<< "0", "x" >> \o HexByte(a) \o HexByte(b), TypeUnit(t), t)

\* a decode_block that pads a trailing partial triplet with zeros
DecodeBlockPadsPartial(raw_data) ==
    [k \in 1 .. ((Len(raw_data) + 2) \div 3) |->
        DecodeValue(raw_data[3 * k - 2],
                    IF 3 * k - 1 <= Len(raw_data) THEN raw_data[3 * k - 1] ELSE 0,
                    IF 3 * k <= Len(raw_data) THEN raw_data[3 * k] ELSE 0)]

\* a decode_block that stops one triplet early (break when i+3 >= len)
DecodeBlockDropsLast(raw_data) ==
    [k \in 1 .. ((Len(raw_data) - 1) \div 3) |->
        DecodeValue(raw_data[3 * k - 2], raw_data[3 * k - 1], raw_data[3 * k])]

\* decode_block(raw_data), lines 12-34: whole triplets only
DecodeBlock(raw_data) ==
    [k \in 1 .. (Len(raw_data) \div 3) |->
        DecodeValue(raw_data[3 * k - 2], raw_data[3 * k - 1], raw_data[3 * k])]

\* tp2_worker.py:312-314: what is decoded of the response to ReadBlock grp
DecodeResponse(payload, resp) ==
    IF /\ Len(payload) = 2 /\ payload[1] = READ_BLOCK
       /\ Len(resp) >= 2 /\ resp[1] = READ_BLOCK_OK /\ resp[2] = payload[2]
    THEN DecodeBlock(From(resp, 2))
    ELSE << >>

\* a call on the channel: the channel before it, its argument, the frames
\* delivered to its _recv calls, what it returned or raised ("none": no
\* exception), the response, the frames sent, and what the service decodes
\* of the response to a request
Op(op, pre, arg, rx, ret, resp, tx) ==
    [op |-> op, pre |-> pre, arg |-> arg, rx |-> rx, ret |-> ret, resp |-> resp,
     tx |-> tx,
     decoded |-> IF op = "request" /\ ret = "none" THEN DecodeResponse(arg, resp)
                 ELSE << >>]

NoOp == Op("none", NewProtocol(FIRST_TESTER_ID), << >>, << >>, "none", << >>, << >>)

InitChan ==
    /\ chan = NewProtocol(FIRST_TESTER_ID)
    /\ chan_ack = NoAck
    /\ chan_op = NoOp

\* a call of the decoder: "value" is decode_value(raw[1], raw[2], raw[3]),
\* "block" is decode_block(raw); items holds what a returned call returned
\* (the one item of decode_value, the list of decode_block)
Call(kind, raw) == [call |-> kind, raw |-> raw, returned |-> FALSE, items |-> << >>]

NoCall == Call("none", << >>)

\* the locals of _read_multiframe_response, lines 325-329 (active: the
\* loop is running; msg: the frame the last _recv returned; sent: the frames
\* the last iteration sent), and how the request ended: ret is "none"
\* while it has not, "return" or "tp2error"
Reading(active, buffer, expected_len, msg, sent, ret, resp) ==
    [active |-> active, buffer |-> buffer, expected_len |-> expected_len,
     msg |-> msg, sent |-> sent, ret |-> ret, resp |-> resp]

NoReading == Reading(FALSE, << >>, 0, << >>, << >>, "none", << >>)

Init == InitService /\ InitChan /\ coding = NoCall /\ reading = NoReading

Level(b) == IF b THEN "on" ELSE "off"

\* process_ignition(), lines 130-147: one POWER_STATUS message is handled
IgnitionMsg(kl15) ==
    /\ pc = "ignition"
    /\ ignition_sub
    /\ IF kl15 # running
       THEN /\ running' = kl15
            /\ sessions' = IF kl15 THEN sessions ELSE DisconnectAll(sessions)
            /\ resumed' = (kl15 /\ HasGroups(sessions))
       ELSE UNCHANGED << running, sessions, resumed >>
    /\ last_kl15' = Level(kl15)
    /\ obs' = [NoObs EXCEPT !.tx = IF running /\ ~kl15
                                  THEN FramesSent(sessions, order, FALSE) ELSE << >>]
    /\ UNCHANGED << ignition_sub, order, next_tester_id, pc, todo, streak, since3,
                    chan, chan_ack, chan_op, coding, reading,
                    rep_waiting >>

\* process_ignition() returns: no subscriber (line 127) or zmq.Again (line 148)
IgnitionDone ==
    /\ pc = "ignition"
    /\ pc' = "commands"
    /\ obs' = NoObs
    /\ UNCHANGED << running, ignition_sub, sessions, order, next_tester_id, todo,
                    last_kl15, resumed, streak, since3, chan, chan_ack, chan_op, coding, reading,
                    rep_waiting >>

\* process_commands() receives (line 156): the REP socket takes a request
\* only after it has answered the one before
Receiving == pc = "commands" /\ ~rep_waiting

\* process_commands() with no request pending (zmq.Again, line 158)
NoCommand ==
    /\ Receiving
    /\ pc' = "gate"
    /\ obs' = NoObs
    /\ UNCHANGED << running, ignition_sub, sessions, order, next_tester_id, todo,
                    last_kl15, resumed, streak, since3, chan, chan_ack, chan_op, coding, reading,
                    rep_waiting >>

Said(cmd, mod, grp, reply) ==
    [NoObs EXCEPT !.cmd = [cmd |-> cmd, module |-> mod, group |-> grp],
                  !.reply = reply]

SetSubState(S) ==
    /\ sessions' = S.sessions
    /\ order' = S.order
    /\ next_tester_id' = S.next_tester_id

CmdStatus ==
    /\ Receiving
    /\ pc' = "gate"
    /\ obs' = Said("STATUS", NoneArg, NoneArg, StatusReply(SubState, running))
    /\ UNCHANGED << running, ignition_sub, sessions, order, next_tester_id, todo,
                    last_kl15, resumed, streak, since3, chan, chan_ack, chan_op, coding, reading,
                    rep_waiting >>

CmdAdd(mod, grp, outcome) ==
    /\ Receiving
    /\ (mod.k = "int" /\ grp.k = "int" /\ mod.v \notin DOMAIN sessions)
          => next_tester_id < FIRST_TESTER_ID + MaxTesters
    /\ (mod.k = "int" /\ grp.k = "int" /\ mod.v \in DOMAIN sessions
        /\ grp.v \in DOMAIN sessions[mod.v].subs)
          => sessions[mod.v].subs[grp.v] < MaxCount
    /\ LET r == AddCmd(SubState, mod, grp, outcome)
       IN /\ SetSubState(r.S)
          /\ obs' = Said("ADD", mod, grp, r.reply)
          /\ resumed' = (resumed /\ r.reply.status # "ok")
    /\ pc' = "gate"
    /\ UNCHANGED << running, ignition_sub, todo, last_kl15, streak, since3, chan, chan_ack, chan_op, coding, reading,
                    rep_waiting >>

CmdRemove(mod, grp) ==
    /\ Receiving
    /\ LET r == RemoveCmd(SubState, mod, grp)
       IN /\ SetSubState(r.S)
          /\ obs' = Said("REMOVE", mod, grp, r.reply)
          /\ resumed' = (resumed /\ r.reply.status # "ok")
    /\ pc' = "gate"
    /\ UNCHANGED << running, ignition_sub, todo, last_kl15, streak, since3, chan, chan_ack, chan_op, coding, reading,
                    rep_waiting >>

CmdClear ==
    /\ Receiving
    /\ LET r == ClearCmd(SubState)
       IN /\ SetSubState(r.S)
          /\ obs' = [Said("CLEAR", NoneArg, NoneArg, r.reply) EXCEPT
                       !.tx = FramesSent(sessions, order, TRUE)]
    /\ resumed' = FALSE
    /\ pc' = "gate"
    /\ UNCHANGED << running, ignition_sub, todo, last_kl15, streak, since3, chan, chan_ack, chan_op, coding, reading,
                    rep_waiting >>

\* TOGGLE, lines 241-253
CmdToggle ==
    /\ Receiving
    /\ running' = ~running
    /\ sessions' = IF running THEN DisconnectAll(sessions) ELSE sessions
    /\ resumed' = (~running /\ HasGroups(sessions))
    /\ obs' = [Said("TOGGLE", NoneArg, NoneArg,
                    [Reply("ok", IF running THEN "Service Disabled" ELSE "Service Enabled")
                       EXCEPT !.enabled = IF running THEN "false" ELSE "true"])
                 EXCEPT !.tx = IF running THEN FramesSent(sessions, order, FALSE)
                               ELSE << >>]
    /\ pc' = "gate"
    /\ UNCHANGED << ignition_sub, order, next_tester_id, todo, last_kl15, streak, since3, chan, chan_ack, chan_op, coding, reading,
                    rep_waiting >>

\* a request whose cmd is none of the five tags: the default reply, line 160
CmdUnknown ==
    /\ Receiving
    /\ pc' = "gate"
    /\ obs' = Said("OTHER", NoneArg, NoneArg, Reply("error", "Unknown command"))
    /\ UNCHANGED << running, ignition_sub, sessions, order, next_tester_id, todo,
                    last_kl15, resumed, streak, since3, chan, chan_ack, chan_op, coding, reading,
                    rep_waiting >>

\* SYNC as src/hudiy_dataview/app.py:421 sends it: process_commands has no
\* branch for it and answers with the default reply of line 160
SyncGroups == {1, 2}

CmdSync(mod) ==
    /\ Receiving
    /\ pc' = "gate"
    /\ obs' = Said("SYNC", mod, NoneArg, Reply("error", "Unknown command"))
    /\ UNCHANGED << running, ignition_sub, sessions, order, next_tester_id, todo,
                    last_kl15, resumed, streak, since3, chan, chan_ack, chan_op, coding, reading,
                    rep_waiting >>

\* a request whose body is not JSON: recv_json raises ValueError, which is
\* not zmq.Again, so the exception leaves process_commands before line 259
\* sends a reply and reaches the handler of run(), lines 348-356
CmdNotJson ==
    /\ Receiving
    /\ rep_waiting' = TRUE
    /\ sessions' = CloseAll(sessions)
    /\ pc' = "ignition"
    /\ obs' = [Said("NOT_JSON", NoneArg, NoneArg, NoReply) EXCEPT !.recovered = TRUE]
    /\ UNCHANGED << running, ignition_sub, order, next_tester_id, todo, last_kl15,
                    resumed, streak, since3, chan, chan_ack, chan_op, coding, reading >>

\* recv_json on a REP socket that still owes a reply raises ZMQError
\* (EFSM), which is not zmq.Again either: the handler of lines 348-356 runs
RecvRefused ==
    /\ pc = "commands"
    /\ rep_waiting
    /\ sessions' = CloseAll(sessions)
    /\ pc' = "ignition"
    /\ obs' = [NoObs EXCEPT !.recovered = TRUE]
    /\ UNCHANGED << running, ignition_sub, order, next_tester_id, todo, last_kl15,
                    resumed, streak, since3, chan, chan_ack, chan_op, coding, reading, rep_waiting >>

\* lines 272-282: the enable gate and the snapshot of the session keys;
\* a pass that polls nothing sleeps and the loop starts over
\* a gate that looks at the sessions only
GateIgnoresEnable(enabled, active_modules) == active_modules # << >>
\* lines 273 and 280: a pass polls when the service is enabled and there
\* is a session
Gate(enabled, active_modules) == enabled /\ active_modules # << >>

StartPass(track) ==
    /\ pc = "gate"
    /\ IF Gate(running, order)
       THEN pc' = "poll" /\ todo' = order /\ since3' = since3
       ELSE /\ pc' = "ignition" /\ todo' = << >>
            /\ since3' = IF track THEN Later(since3, SLEEP_MS) ELSE since3
    /\ obs' = NoObs
    /\ UNCHANGED << running, ignition_sub, sessions, order, next_tester_id,
                    last_kl15, resumed, streak, chan, chan_ack, chan_op, coding, reading,
                    rep_waiting >>

\* lines 284-343 for the next session of the snapshot, with the recovery
\* of lines 348-356 when an exception leaves the body; after the last
\* session the pass sleeps and the loop starts over.  The session is
\* polled while its channel's seq_tx is below cap.
PollSession(io, cap, track) ==
    /\ pc = "poll"
    /\ todo # << >>
    /\ sessions[Head(todo)].protocol.seq_tx < cap
    /\ \E m \in {Head(todo)} : \E r \in {Tick(sessions[m], m, io)} :
       LET last == r.crash \/ Tail(todo) = << >>
           st == IF track THEN Streak(streak, r.read) ELSE streak
           ms == TickMaxMs + (IF r.crash THEN RECOVER_MS
                              ELSE IF last THEN SLEEP_MS ELSE 0)
       IN /\ IF r.crash
             THEN /\ sessions' = CloseAll([sessions EXCEPT ![m] = r.s])
                  /\ todo' = << >>
                  /\ pc' = "ignition"
             ELSE /\ sessions' = [sessions EXCEPT ![m] = r.s]
                  /\ todo' = Tail(todo)
                  /\ pc' = IF last THEN "ignition" ELSE "poll"
          /\ obs' = [NoObs EXCEPT !.read = r.read, !.pub = r.pub,
                                  !.recovered = r.crash]
          /\ streak' = st
          /\ since3' = IF ~track THEN since3
                       ELSE IF st.n < 3 THEN -1
                       ELSE IF streak.n < 3 THEN Later(0, ms)
                       ELSE Later(since3, ms)
    /\ UNCHANGED << running, ignition_sub, order, next_tester_id, last_kl15,
                    resumed, chan, chan_ack, chan_op, coding, reading,
                    rep_waiting >>

\* the ADD and REMOVE requests of the exploration over a set of (module,
\* group) pairs, and one request each with a missing or a non-integer
\* parameter
AddRequests(pairs) ==
    {<< IntArg(x[1]), IntArg(x[2]) >> : x \in pairs}
    \cup {<< IntArg(1), NoneArg >>, << BadArg, IntArg(1) >>, << IntArg(1), BadArg >>}

RemoveRequests(pairs) ==
    {<< IntArg(x[1]), IntArg(x[2]) >> : x \in pairs}
    \cup {<< IntArg(2), IntArg(2) >>, << IntArg(1), NoneArg >>, << BadArg, IntArg(1) >>}

\* one step of the service with the clients' requests over pairs and the
\* ticks' inputs drawn from ios
NextOver(pairs, ios) ==
    \/ \E kl15 \in BOOLEAN : IgnitionMsg(kl15)
    \/ IgnitionDone
    \/ NoCommand
    \/ CmdStatus
    \/ \E a \in AddRequests(pairs), o \in CreateOutcomes : CmdAdd(a[1], a[2], o)
    \/ \E a \in RemoveRequests(pairs) : CmdRemove(a[1], a[2])
    \/ CmdClear
    \/ CmdToggle
    \/ CmdUnknown
    \/ CmdSync(IntArg(1))
    \/ CmdNotJson
    \/ RecvRefused
    \/ StartPass(FALSE)
    \/ \E io \in ios : PollSession(io, MaxSeq, FALSE)

\* one module with two groups
Next == NextOver(OneModule, TickIOs)

Spec == Init /\ [][Next]_vars

\* two modules with one group each, over ticks that go well, whose channel
\* setup gets no answer, or whose ReadBlock gets no answer
TwoIOs == {GoodIO, [GoodIO EXCEPT !.conn = << >>], [GoodIO EXCEPT !.read = "silent"]}

NextTwo == NextOver(TwoModules, TwoIOs)

SpecTwo == Init /\ [][NextTwo]_vars

\* two modules with one group each, over ticks that go well or in which the
\* CAN driver raises an exception that is not a TP2Error during the read
PassIOs == {GoodIO, [GoodIO EXCEPT !.read_fault = "crash"]}

NextPass == NextOver(TwoModules, PassIOs)

SpecPass == Init /\ [][NextPass]_vars

\* one module with two groups, over ticks whose ReadBlock is answered well,
\* rejected, not acknowledged, answered for another group, with an empty
\* response or with the one byte 61, or whose sample the publisher refuses
PublishIOs ==
    {GoodIO, [GoodIO EXCEPT !.pub_ok = FALSE]}
    \cup {[GoodIO EXCEPT !.read = x] :
             x \in {"negative", "silent", "mismatch", "empty", "short"}}

NextPublish == NextOver(OneModule, PublishIOs)

SpecPublish == Init /\ [][NextPublish]_vars

\* An enabled service whose clients only subscribe, polling an ECU that
\* serves every group but group 1.  The loop of run() never stops, which
\* is the fairness stated.
BackoffIOs == {[GoodIO EXCEPT !.read = x] : x \in {"g1_negative", "g1_silent"}}

NextBackoff ==
    \/ IgnitionDone
    \/ NoCommand
    \/ CmdStatus
    \/ \E a \in AddRequests(OneModule), o \in CreateOutcomes : CmdAdd(a[1], a[2], o)
    \/ StartPass(TRUE)
    \/ \E io \in BackoffIOs : PollSession(io, SEQ_MOD, TRUE)

SpecBackoff == Init /\ [][NextBackoff]_vars /\ WF_vars(NextBackoff)

(***************************************************************************)
(* One channel driven directly, the way the probe scripts of src/tp2 use   *)
(* TP2Protocol (read_engine_data.py:22-60): open, connect, requests,       *)
(* keep-alives, disconnect, close, in any order.                           *)
(***************************************************************************)
\* byte 0 of the frame that answers a request: every ACK header, a
\* disconnect, a wait frame, a data header
AckBytes == ACK_BASE .. (ACK_BASE + 15) \cup {DISCONNECT_OP, WAIT_93, 16}

\* data frames: the StartSession response 50 89, the frame of the
\* single-frame read of the specification (it declares 0x0E bytes and
\* carries 11), the same bytes with the length they have (0x0B), and
\* 50 89 sent as an intermediate frame and a last frame
SessionData == << 16, 0, 2, 80, SESSION_TYPE >>
ScenarioData == << 16, 0, 14, READ_BLOCK_OK, 1, 5, 100, 180, 1, 75, 50, 2, 80, 50 >>
BlockData == << 16, 0, 11, READ_BLOCK_OK, 1, 5, 100, 180, 1, 75, 50, 2, 80, 50 >>
FirstPart == << 32, 80 >>
LastPart == << 17, 0, 2, SESSION_TYPE >>
WaitFrame == << WAIT_93 >>
\* a frame that declares length 0 and carries one byte; an intermediate
\* frame with three bytes; 50 89 followed by three bytes of padding
ZeroLength == << 16, 0, 0, 170 >>
LongPart == << 32, 80, 81, 82 >>
PaddedData == << 16, 0, 2, 80, SESSION_TYPE, 170, 170, 170 >>
\* the message 61 01 05 64 B4 split as TP2.0 splits it: an intermediate
\* frame with the length 00 05 and the first two bytes, a last frame with
\* the other three
SplitFirst == << 32, 0, 5, READ_BLOCK_OK, 1 >>
SplitLast == << 17, 5, 100, 180 >>

\* the frames that follow the frame taken as ACK
ChanResponses ==
    {<< >>, << SessionData >>, << << DISCONNECT_OP >> >>, << ScenarioData >>,
     << BlockData >>, << FirstPart, LastPart >>,
     << WaitFrame >>, << WaitFrame, SessionData >>, << WaitFrame, BlockData >>,
     << FirstPart, WaitFrame, LastPart >>, << FirstPart, << DISCONNECT_OP >> >>,
     << ZeroLength >>, << LongPart, LastPart >>, << PaddedData >>,
     << SplitFirst, SplitLast >>}

ChanPayloads == {<< START_SESSION, SESSION_TYPE >>, << READ_BLOCK, 1 >>}

\* frames the ECU may send on the rx id ahead of the ACK of a request: a
\* wait frame, its keep-alive, data that is late
StrayFrames == {WaitFrame, << KEEPALIVE_OP >>, SessionData}

\* the setup reply with the module's address in byte 0: [01 D0 00 03 40 07 00]
ModuleSetupFrame == << 1, SETUP_REPLY, 0, 3, 64, 7, 0 >>
ChanConnectScripts == ConnectScripts \cup {<< ModuleSetupFrame, << PARAM_ACK >> >>}

Truth(b) == IF b THEN "true" ELSE "false"

ChanOpen(ok) ==
    /\ \E r \in {Open(chan, ok)} :
          /\ chan' = r.p
          /\ chan_op' = Op("open", chan, << >>, << >>, r.err, << >>, << >>)
    /\ UNCHANGED << chan_ack, coding, reading, svc_vars >>

ChanConnect(rx, fault) ==
    /\ \E r \in {Connect(chan, 1, rx, fault)} :
          /\ chan' = r.p
          /\ chan_op' = Op("connect", chan, << 1 >>, rx, r.ret, << >>, r.tx)
    /\ UNCHANGED << chan_ack, coding, reading, svc_vars >>

ChanRequest(payload, rx, fault) ==
    /\ \E r \in {SendKvpRequest(chan, payload, rx, fault)} :
          /\ chan' = r.p
          /\ chan_ack' = r.ack
          /\ chan_op' = Op("request", chan, payload, rx, r.err, r.resp, r.tx)
    /\ UNCHANGED << coding, reading, svc_vars >>

ChanKeepAlive(rx) ==
    /\ \E r \in {SendKeepAlive(chan, rx, "none")} :
          /\ chan' = r.p
          /\ chan_op' = Op("keepalive", chan, << >>, rx, Truth(r.ret), << >>, r.tx)
    /\ UNCHANGED << chan_ack, coding, reading, svc_vars >>

ChanDisconnect ==
    /\ \E r \in {Disconnect(chan)} :
          /\ chan' = r.p
          /\ chan_op' = Op("disconnect", chan, << >>, << >>, "none", << >>, r.tx)
    /\ UNCHANGED << chan_ack, coding, reading, svc_vars >>

ChanClose ==
    /\ \E r \in {Close(chan)} :
          /\ chan' = r.p
          /\ chan_op' = Op("close", chan, << >>, << >>, "none", << >>, r.tx)
    /\ UNCHANGED << chan_ack, coding, reading, svc_vars >>

NextChan ==
    \/ \E ok \in BOOLEAN : ChanOpen(ok)
    \/ \E rx \in ChanConnectScripts, f \in Faults : ChanConnect(rx, f)
    \/ \E pl \in ChanPayloads, b \in AckBytes :
          ChanRequest(pl, << << b >>, SessionData >>, "none")
    \/ \E pl \in ChanPayloads, rest \in ChanResponses :
          ChanRequest(pl, << EcuAck(chan.seq_tx) >> \o rest, "none")
    \/ \E f \in Faults : ChanRequest(<< START_SESSION, SESSION_TYPE >>, << >>, f)
    \/ \E stray \in StrayFrames :
          ChanRequest(<< START_SESSION, SESSION_TYPE >>,
                      << stray, EcuAck(chan.seq_tx), SessionData >>, "none")
    \/ \E rx \in KeepAliveScripts : ChanKeepAlive(rx)
    \/ ChanDisconnect
    \/ ChanClose

SpecChan == Init /\ [][NextChan]_vars

(***************************************************************************)
(* A request on the channel taken one _recv at a time: the request is      *)
(* sent and its ACK awaited, then every step is one iteration of the loop  *)
(* of _read_multiframe_response on the frame (or the timeout) that the     *)
(* iteration's _recv returns.                                              *)
(***************************************************************************)
\* one iteration of the while loop, lines 329-398, on the frame msg that
\* _recv returned (<< >>: None after T1); next is "continue", "return" or
\* "raise"
ReadIteration(p, msg, buffer, expected_len) ==
    LET go(buf, exp, tx) ==
            [p |-> p, next |-> "continue", buffer |-> buf, expected_len |-> exp,
             resp |-> << >>, tx |-> tx]
    IN  IF msg = << >>
        THEN [go(buffer, expected_len, << >>) EXCEPT !.next = "raise"]
        ELSE IF HighNibble(msg[1]) = ACK_BASE
        THEN go(buffer, expected_len, << >>)
        ELSE IF msg[1] = KEEPALIVE_OP
        THEN go(buffer, expected_len, << Frame(p.tx_id, << PARAM_ACK >>) >>)
        ELSE IF msg[1] = DISCONNECT_OP
        THEN [go(buffer, expected_len, Disconnect(p).tx) EXCEPT
                !.p = Disconnect(p).p, !.next = "raise"]
        ELSE IF HighNibble(msg[1]) = 16                         \* 0x1N
        THEN IF Len(msg) < 4
             THEN go(buffer, expected_len, << >>)
             ELSE LET cur_len == msg[2] * 256 + msg[3]
                      exp == IF expected_len = 0 THEN cur_len ELSE expected_len
                      data == From(msg, 3)
                      needed == exp - Len(buffer)
                      part == IF Len(data) > needed THEN Prefix(data, needed) ELSE data
                      buf == buffer \o part
                      ack == Frame(p.tx_id,
                                   << ACK_BASE + ((LowNibble(msg[1]) + 1) % SEQ_MOD) >>)
                  IN  IF Len(buf) >= exp
                      THEN [go(buf, exp, << ack >>) EXCEPT !.next = "return", !.resp = buf]
                      ELSE go(buf, exp, << ack >>)
        ELSE IF HighNibble(msg[1]) = 32                         \* 0x2N
        THEN go(buffer \o From(msg, 1), expected_len, << >>)
        ELSE go(buffer, expected_len, << >>)         \* 0x9N and unknown types

\* frames the ECU sends while the tester waits for the response: a stray
\* ACK, its keep-alive, a frame 0x1N too short to be read, a frame with an
\* unknown header (0x40), a wait frame, data, a disconnect; << >> is no
\* frame within T1
TooShort == << 16, 0, 2 >>
UnknownHeader == << 64 >>
LoopFrames ==
    {<< ACK_BASE + 2 >>, << KEEPALIVE_OP >>, TooShort, UnknownHeader, WaitFrame,
     LastPart, SessionData, << DISCONNECT_OP >>, << >>}

\* open() and connect() between requests
ReadSetup ==
    /\ ~reading.active
    /\ ~chan.connected
    /\ IF chan.bus THEN ChanConnect(ConnectGood, "none") ELSE ChanOpen(TRUE)

\* send_kvp_request, lines 185-313 up to the call of the reassembly: the
\* request is sent, seq_tx advanced, and the frame ack awaited as ACK
RequestSent(payload, ack) ==
    /\ ~reading.active
    /\ chan.connected /\ chan.bus
    /\ chan' = [chan EXCEPT !.seq_tx = NextSeq(chan.seq_tx)]
    /\ reading' = IF WaitAck(chan.seq_tx, ack)
                  THEN Reading(TRUE, << >>, 0, ack,
                               << Frame(chan.tx_id,
                                        << 16 + chan.seq_tx, 0, Len(payload) >>
                                           \o payload) >>,
                               "none", << >>)
                  ELSE Reading(FALSE, << >>, 0, ack, << >>, "tp2error", << >>)
    /\ UNCHANGED << chan_ack, chan_op, coding, svc_vars >>

\* one iteration of the reassembly loop
ReadLoop(msg) ==
    /\ reading.active
    /\ \E r \in {ReadIteration(chan, msg, reading.buffer, reading.expected_len)} :
          /\ chan' = r.p
          /\ reading' = Reading(r.next = "continue", r.buffer, r.expected_len, msg,
                                r.tx,
                                IF r.next = "continue" THEN "none"
                                ELSE IF r.next = "return" THEN "return" ELSE "tp2error",
                                r.resp)
    /\ UNCHANGED << chan_ack, chan_op, coding, svc_vars >>

NextRead ==
    \/ ReadSetup
    \/ \E ack \in {EcuAck(chan.seq_tx), << >>} :
          RequestSent(<< START_SESSION, SESSION_TYPE >>, ack)
    \/ \E msg \in LoopFrames : ReadLoop(msg)

\* the loop of _read_multiframe_response goes on while it has not returned
\* or raised: every _recv returns, with a frame or after T1 with None
SpecRead ==
    Init /\ [][NextRead]_vars /\ WF_vars(\E msg \in LoopFrames : ReadLoop(msg))

(***************************************************************************)
(* The decoder called on its own: one call of decode_value or decode_block *)
(* on an input drawn from the sets below.                                  *)
(***************************************************************************)
\* the longest body given to decode_block
MaxBody == 7

\* operands of decode_value; bytes of a body (the types 1, 5, 36 and
\* one type without a formula among them)
ValueBytes == {0, 1, 2, 100, 127, 128, 255}
BodyBytes == {1, 5, 36, 200}

Bodies == UNION {[1 .. n -> BodyBytes] : n \in 0 .. MaxBody}

ValueCalls ==
    {Call("value", << t, a, b >>) : t \in 0 .. 255, a \in ValueBytes, b \in ValueBytes}

InitCoding ==
    /\ InitService
    /\ InitChan
    /\ reading = NoReading
    /\ coding \in {c \in ValueCalls : ~FloatTie(c.raw[1], c.raw[2], c.raw[3])}
                 \cup {Call("block", raw) : raw \in Bodies}

DecodeValueCall ==
    /\ coding.call = "value"
    /\ ~coding.returned
    /\ coding' = [coding EXCEPT !.returned = TRUE,
                                !.items = << DecodeValue(coding.raw[1], coding.raw[2],
                                                         coding.raw[3]) >>]
    /\ UNCHANGED << chan, chan_ack, chan_op, reading, svc_vars >>

DecodeBlockCall ==
    /\ coding.call = "block"
    /\ ~coding.returned
    /\ coding' = [coding EXCEPT !.returned = TRUE, !.items = DecodeBlock(coding.raw)]
    /\ UNCHANGED << chan, chan_ack, chan_op, reading, svc_vars >>

NextCoding == DecodeValueCall \/ DecodeBlockCall

SpecCoding == InitCoding /\ [][NextCoding]_vars

(***************************************************************************)
(* Properties.                                                             *)
(***************************************************************************)

\* C1: a frame is taken as the ACK of a request exactly when its byte 0 is
\* 0xB0 | ((the sequence number the request was sent with + 1) mod 16),
\* for all 16 sequence numbers, the wrap from 15 to 0 included.
C1_AckMatchesNextSeq ==
    chan_ack.sent =>
        (chan_ack.accepted <=>
            chan_ack.byte = ACK_BASE + ((chan_ack.before + 1) % 16))

\* C1 witness: the request sent with sequence number 15 was acknowledged
\* (by 0xB0), and the counter wrapped to 0
C1_WitnessWrap ==
    chan_ack.sent /\ chan_ack.accepted /\ chan_ack.before = 15 /\ chan.seq_tx = 0

\* ---- the subscription state of one session ------------------------------
ListSet(list) == {list[i] : i \in 1 .. Len(list)}

NoDuplicates(list) == \A i, j \in 1 .. Len(list) : i # j => list[i] # list[j]

\* list2 keeps the groups of list1 it still has in their order and has
\* its new groups after them
KeepsOrder(list1, list2) ==
    LET Kept(g) == InList(list2, g)
        old == SelectSeq(list1, Kept)
    IN  /\ Len(old) <= Len(list2)
        /\ SubSeq(list2, 1, Len(old)) = old
        /\ \A i \in (Len(old) + 1) .. Len(list2) : ~InList(list1, list2[i])

ListMatchesCounts(sess) ==
    /\ NoDuplicates(sess.groups_list)
    /\ ListSet(sess.groups_list) = DOMAIN sess.subs
    /\ \A g \in DOMAIN sess.subs : sess.subs[g] > 0

\* C2: in every reachable state every session's ordered group list holds,
\* without duplicates, exactly the groups of its refcount map, every count
\* of the map is greater than 0, and every step keeps the listed groups in
\* their order with newly subscribed groups after them (the order of first
\* subscription).
C2_ListIsSubscribedGroups ==
    /\ [](\A m \in DOMAIN sessions : ListMatchesCounts(sessions[m]))
    /\ [][\A m \in DOMAIN sessions \cap DOMAIN sessions' :
             KeepsOrder(sessions[m].groups_list, sessions'[m].groups_list)]_vars

\* C2 witness: group 1, subscribed first, was removed while group 2 was
\* held twice: the list is <<2>> and the count of group 2 is 2
C2_WitnessRemovedFirst ==
    /\ obs.cmd.cmd = "REMOVE" /\ obs.reply.status = "ok" /\ obs.reply.count = 0
    /\ 1 \in DOMAIN sessions
    /\ sessions[1].groups_list = << 2 >>
    /\ sessions[1].subs[2] = 2

\* C3: in every reachable state every session's cursor is below the length
\* of its ordered group list, and is 0 when the list is empty.
C3_CursorInRange ==
    \A m \in DOMAIN sessions :
        IF sessions[m].groups_list = << >>
        THEN sessions[m].idx = 0
        ELSE sessions[m].idx < Len(sessions[m].groups_list)

\* C3 witness: a sample of the first of two groups was published and the
\* cursor stands on the second
C3_WitnessCursorAdvanced ==
    /\ obs.read.result = "ok" /\ obs.read.grp = 1
    /\ 1 \in DOMAIN sessions
    /\ sessions[1].groups_list = << 1, 2 >>
    /\ sessions[1].idx = 1

\* ---- polling under failures ----------------------------------------------
BothSubscribed ==
    /\ 1 \in DOMAIN sessions
    /\ ListSet(sessions[1].groups_list) = {1, 2}

ReadIssued(o, mod, grp) ==
    o.read.result # "none" /\ o.read.mod = mod /\ o.read.grp = grp

\* C4: with groups 1 and 2 of a module subscribed, the service enabled and
\* an ECU that fails every read of group 1 and would serve group 2, a
\* ReadBlock of group 2 is issued again and again.
C4_OtherGroupStillPolled ==
    [](BothSubscribed => <>ReadIssued(obs, 1, 2))

\* C5: once a group has failed three reads in a row, no ReadBlock is issued
\* for it while less than 30 s have passed since the third failure.
C5_NoReadDuringCooldown ==
    [][(streak.n = 3 /\ since3 >= 0 /\ since3 < CooldownMs)
          => ~ReadIssued(obs', streak.mod, streak.grp)]_vars

\* ---- the enabled flag ----------------------------------------------------
\* a step of process_ignition() that handled a POWER_STATUS message: the
\* only step that starts and ends at "ignition"
HandlesPowerStatus == pc = "ignition" /\ pc' = "ignition"

NoneConnected(sess_map) == \A m \in DOMAIN sess_map : ~sess_map[m].connected

\* C6: when a POWER_STATUS message with kl15 false is handled while the
\* service is enabled, the enabled flag is false and every session's
\* connected flag is false right after it, and no polling pass runs while
\* the enabled flag is false.
C6_IgnitionOffDisconnectsAll ==
    /\ [][(HandlesPowerStatus /\ running /\ last_kl15' = "off")
             => (~running' /\ NoneConnected(sessions'))]_vars
    /\ [](pc = "poll" => running)

\* C6 witness: ignition went off with two subscribed sessions whose
\* channels had been set up; both are disconnected
C6_WitnessTwoDisconnected ==
    /\ pc = "ignition" /\ last_kl15 = "off" /\ ~running
    /\ DOMAIN sessions = {1, 2}
    /\ \A m \in DOMAIN sessions :
          /\ sessions[m].groups_list # << >>
          /\ sessions[m].protocol.tx_id # 0
          /\ ~sessions[m].connected /\ ~sessions[m].protocol.connected

Subscriptions(sess_map) ==
    [m \in DOMAIN sess_map |->
        [subs |-> sess_map[m].subs, groups_list |-> sess_map[m].groups_list,
         idx |-> sess_map[m].idx]]

\* C7: a step that disables the service removes no session and leaves
\* every session's refcount map, ordered group list and cursor unchanged;
\* once the service is enabled again with these subscriptions, the next
\* gate starts a pass over every session, and a session whose channel is
\* up after its tick had the ReadBlock of the group at its cursor issued.
C7_DisablePreservesSubscriptions ==
    /\ [][(running /\ ~running')
             => (order' = order /\ Subscriptions(sessions') = Subscriptions(sessions))]_vars
    /\ [][(resumed /\ pc = "gate") => (pc' = "poll" /\ todo' = order)]_vars
    /\ [][(resumed /\ pc = "poll" /\ todo # << >>)
             => LET m == Head(todo)
                    sess == sessions[m]
                IN (sess.groups_list # << >> /\ sessions'[m].connected)
                      => ReadIssued(obs', m, sess.groups_list[sess.idx + 1])]_vars

\* C7 witness: after the service was disabled and enabled again, with no
\* ADD since, a sample of a subscribed group is published
C7_WitnessPolledAfterResume ==
    /\ resumed
    /\ obs.read.result = "ok"
    /\ obs.pub = [module |-> obs.read.mod, group |-> obs.read.grp]

\* C8: a POWER_STATUS message that carries the level of the message
\* before it leaves the enabled flag as it is.
C8_SameLevelKeepsEnabled ==
    [][(HandlesPowerStatus /\ last_kl15' = last_kl15) => running' = running]_vars

\* ---- ADD and REMOVE ------------------------------------------------------
\* C9: in every reachable state, for every module and group, an
\* ADD followed by REMOVE of the same pair gives back the set of sessions
\* and every session's refcount map, ordered group list and cursor.
C9_AddRemoveRestores ==
    \A x \in OneModule \cup TwoModules : \A o \in CreateOutcomes :
        LET a == AddCmd(SubState, IntArg(x[1]), IntArg(x[2]), o)
            r == RemoveCmd(a.S, IntArg(x[1]), IntArg(x[2]))
        IN  Subscriptions(r.S.sessions) = Subscriptions(sessions)

\* the refcount of grp in the session of mod (0: none)
CountOf(sess_map, mod, grp) ==
    IF mod \in DOMAIN sess_map /\ grp \in DOMAIN sess_map[mod].subs
    THEN sess_map[mod].subs[grp] ELSE 0

Listed(reply, mod, grp) ==
    \E i \in 1 .. Len(reply.sessions) :
        reply.sessions[i].module = mod /\ grp \in reply.sessions[i].groups

\* C10: an ADD with both parameters leaves a session for the module whose
\* refcount of the group is one higher than before, is answered ok with
\* that count, and a STATUS that follows lists the module with the group.
C10_AddAlwaysSubscribes ==
    [][(pc = "commands" /\ obs'.cmd.cmd = "ADD"
        /\ obs'.cmd.module.k = "int" /\ obs'.cmd.group.k = "int")
          => LET m == obs'.cmd.module.v
                 g == obs'.cmd.group.v
             IN /\ obs'.reply.status = "ok"
                /\ CountOf(sessions', m, g) = CountOf(sessions, m, g) + 1
                /\ obs'.reply.count = CountOf(sessions', m, g)
                /\ Listed(StatusReply(SubState, running)', m, g)]_vars

\* ---- sessions without subscriptions ---------------------------------------
\* C11: the scheduler's visit of a session whose refcount map REMOVE has
\* emptied takes the session out of the session map.
C11_EmptiedSessionDeleted ==
    [][(pc = "poll" /\ todo # << >> /\ sessions[Head(todo)].subs = EmptyDict)
          => Head(todo) \notin DOMAIN sessions']_vars

\* C12: a SYNC of a module with the desired groups SyncGroups is answered
\* ok and leaves the module with a session that holds every desired group.
C12_SyncApplied ==
    obs.cmd.cmd = "SYNC" =>
        /\ obs.reply.status = "ok"
        /\ obs.cmd.module.v \in DOMAIN sessions
        /\ SyncGroups \subseteq DOMAIN sessions[obs.cmd.module.v].subs

\* C13: a TOGGLE inverts the enabled flag, is answered ok with enabled
\* equal to the new flag, and removes no session; when the new flag is
\* false, every session has connected = false when the reply is sent, and
\* the channel of every session that was connected has run disconnect(),
\* which sent [0xA8] on its tx id.
C13_ToggleInvertsAndDisconnects ==
    [][(Receiving /\ obs'.cmd.cmd = "TOGGLE")
          => /\ running' = ~running
             /\ obs'.reply.status = "ok"
             /\ obs'.reply.enabled = Truth(running')
             /\ DOMAIN sessions' = DOMAIN sessions
             /\ ~running' =>
                   \A m \in DOMAIN sessions :
                      /\ ~sessions'[m].connected
                      /\ sessions[m].connected =>
                            LET d == Disconnect(sessions[m].protocol)
                            IN /\ sessions'[m].protocol = d.p
                               /\ ~sessions'[m].protocol.connected
                               /\ d.tx = << Frame(sessions[m].protocol.tx_id,
                                                  << DISCONNECT_OP >>) >>]_vars

\* C13 witness: a TOGGLE disabled the service with two sessions whose
\* channels had been set up; both are disconnected when the reply is sent
C13_WitnessToggledOff ==
    /\ obs.cmd.cmd = "TOGGLE" /\ obs.reply.enabled = "false" /\ ~running
    /\ DOMAIN sessions = {1, 2}
    /\ \A m \in DOMAIN sessions :
          /\ sessions[m].protocol.bus /\ sessions[m].protocol.tx_id # 0
          /\ ~sessions[m].connected /\ ~sessions[m].protocol.connected

\* C14: a CLEAR is answered ok, deletes no session and leaves every
\* session's channel as it is.
C14_ClearLeavesSessionsToScheduler ==
    [][(Receiving /\ obs'.cmd.cmd = "CLEAR")
          => /\ obs'.reply.status = "ok"
             /\ DOMAIN sessions' = DOMAIN sessions
             /\ \A m \in DOMAIN sessions :
                   sessions'[m].protocol = sessions[m].protocol]_vars

\* ---- malformed requests ---------------------------------------------------
\* a request with a cmd tag that is not defined, or an ADD or REMOVE with a
\* parameter that is missing or not an integer
Malformed(o) ==
    \/ o.cmd.cmd = "OTHER"
    \/ /\ o.cmd.cmd \in {"ADD", "REMOVE"}
       /\ (o.cmd.module.k # "int" \/ o.cmd.group.k # "int")

C16_EveryRequestAnswered ==
    obs.cmd.cmd # "none" => obs.reply.status # "none"

\* C17: a connect on an open channel that is answered by a setup frame with
\* 0xD0 in byte 1 and then by a frame starting 0xA1 succeeds: the channel
\* sends on (byte5 << 8) | byte4, listens on its tester id, and is connected.
C17_SetupReplyAccepted ==
    (/\ chan_op.op = "connect"
     /\ chan_op.pre.bus
     /\ Len(chan_op.rx) = 2
     /\ Len(chan_op.rx[1]) >= 6
     /\ chan_op.rx[1][2] = SETUP_REPLY
     /\ chan_op.rx[2][1] = PARAM_ACK
     /\ chan_op.ret # "tp2error" /\ chan_op.ret # "crash")
        => /\ chan_op.ret = "true"
           /\ chan.tx_id = chan_op.rx[1][6] * 256 + chan_op.rx[1][5]
           /\ chan.rx_id = chan.tester_id
           /\ chan.connected

\* the single-frame read: [21 01] sent with sequence number 0 on a connected
\* channel and answered by the ACK B1 and the data frame
SingleFrameRead(data) ==
    /\ chan_op.op = "request"
    /\ chan_op.pre.connected /\ chan_op.pre.bus /\ chan_op.pre.seq_tx = 0
    /\ chan_op.arg = << READ_BLOCK, 1 >>
    /\ chan_op.rx = << << 177 >>, data >>

\* the items of the specification's scenario: 26.00 C, 15.00 rpm, 50.0 %, 8.0 %
ScenarioItems ==
    << Num(2600, "C", 5), Num(1500, "rpm", 1), Num(5000, "%", 2), Num(800, "%", 2) >>

\* what the bytes 05 64 B4 01 4B 32 02 50 32 decode to: 800.0 C, 750.0 rpm, 8.0 %
BlockItems ==
    << Num(80000, "C", 5), Num(75000, "rpm", 1), Num(800, "%", 2) >>

\* C18 as stated: the read answered by the frame that declares 0x0E bytes
\* completes and its body decodes to the four items of the scenario.
C18_ScenarioReadCompletes ==
    SingleFrameRead(ScenarioData)
        => chan_op.ret = "none" /\ chan_op.decoded = ScenarioItems

\* C18: the frame of the scenario declares 14 bytes and carries 11, so the
\* read acknowledges it, waits for the rest and fails; with the length it
\* has (0x0B) the read returns the 11 bytes 61 01 05 64 B4 01 4B 32 02 50 32
\* and the body after the group byte decodes to three items, 800.0 C
\* (type 5), 750.0 rpm (type 1) and 8.0 % (type 2).
C18_SingleFrameRead ==
    /\ SingleFrameRead(ScenarioData)
          => /\ chan_op.ret = "tp2error"
             /\ chan_op.tx[Len(chan_op.tx)].data = << 177 >>
             /\ chan_op.decoded = << >>
    /\ SingleFrameRead(BlockData)
          => /\ chan_op.ret = "none"
             /\ chan_op.resp = From(BlockData, 3)
             /\ chan_op.decoded = BlockItems
             /\ chan.connected /\ chan.seq_tx = 1

C18_WitnessBlockDecoded ==
    SingleFrameRead(BlockData) /\ Len(chan_op.decoded) = 3

\* the frames without the wait frames 0x9N
NoWait(frames) == SelectSeq(frames, LAMBDA f : HighNibble(f[1]) # 144)

\* a request whose ACK was accepted and whose reassembly met a wait frame
WaitedRequest ==
    /\ chan_op.op = "request"
    /\ chan_op.pre.connected /\ chan_op.pre.bus
    /\ chan_op.rx # << >>
    /\ WaitAck(chan_op.pre.seq_tx, Head(chan_op.rx))
    /\ NoWait(Tail(chan_op.rx)) # Tail(chan_op.rx)

\* C19: a wait frame that arrives during reassembly adds nothing to the
\* response and does not fail the request: the request ends as it would
\* without the wait frames (same outcome, response, frames sent and channel),
\* and when the complete response follows the wait frame it is returned.
C19_WaitFrameSkipped ==
    WaitedRequest =>
        /\ \E r \in {SendKvpRequest(chan_op.pre, chan_op.arg,
                                    << Head(chan_op.rx) >> \o NoWait(Tail(chan_op.rx)),
                                    "none")} :
              /\ chan_op.ret = r.err
              /\ chan_op.resp = r.resp
              /\ chan_op.tx = r.tx
              /\ chan = r.p
        /\ Tail(chan_op.rx) = << FirstPart, WaitFrame, LastPart >>
              => chan_op.ret = "none" /\ chan_op.resp = << 80, SESSION_TYPE >>
        /\ Tail(chan_op.rx) = << WaitFrame, BlockData >>
              => chan_op.ret = "none" /\ chan_op.resp = From(BlockData, 3)

C19_WitnessResumedAfterWait ==
    /\ WaitedRequest
    /\ Tail(chan_op.rx) = << FirstPart, WaitFrame, LastPart >>
    /\ chan_op.resp = << 80, SESSION_TYPE >>

\* a call on a connected channel during which a frame A8 was received: in
\* place of the ACK of a request, during its reassembly, or as the reply to
\* a keep-alive
DisconnectReceived ==
    /\ chan_op.op \in {"request", "keepalive"}
    /\ chan_op.pre.connected /\ chan_op.pre.bus
    /\ chan_op.rx # << >>
    /\ \/ Head(chan_op.rx) = << DISCONNECT_OP >>
       \/ /\ chan_op.op = "request"
          /\ WaitAck(chan_op.pre.seq_tx, Head(chan_op.rx))
          /\ Len(chan_op.rx) >= 2
          /\ chan_op.rx[2] = << DISCONNECT_OP >>

\* C20: after a call on a connected channel that received a frame A8 the
\* channel is not connected and the call has failed.
C20_DisconnectFrameClosesChannel ==
    DisconnectReceived
        => ~chan.connected /\ chan_op.ret \in {"tp2error", "false"}

\* a keep-alive sent on a connected channel that got no reply within T1
KeepAliveUnanswered ==
    /\ chan_op.op = "keepalive"
    /\ chan_op.pre.connected /\ chan_op.pre.bus /\ chan_op.pre.tx_id # 0
    /\ chan_op.rx = << >>

\* C21: after a keep-alive that got no reply within T1 the channel is not
\* connected.
C21_SilentKeepAliveDisconnects ==
    KeepAliveUnanswered => ~chan.connected

\* C22: a tick whose ReadBlock is answered by a negative response gets the
\* three bytes 7F 21 nrc from the request, publishes nothing, leaves the
\* session and its channel connected on the ids they had, and leaves the
\* cursor on the rejected group.
C22_NegativeResponseKeepsChannel ==
    [][(pc = "poll" /\ obs'.read.result = "negative")
          => /\ obs'.read.resp = << NEG_RESPONSE, READ_BLOCK, 18 >>
             /\ obs'.pub = NoPub
             /\ \E m \in {obs'.read.mod} :
                   /\ m = Head(todo)
                   /\ sessions'[m].connected
                   /\ sessions'[m].protocol.connected
                   /\ sessions'[m].protocol.bus
                   /\ sessions'[m].protocol.tx_id = 1856
                   /\ sessions'[m].groups_list[sessions'[m].idx + 1] = obs'.read.grp
                   /\ DOMAIN sessions' = DOMAIN sessions]_vars

C22_WitnessRejectedStillConnected ==
    /\ obs.read.result = "negative"
    /\ obs.read.resp = << NEG_RESPONSE, READ_BLOCK, 18 >>
    /\ sessions[obs.read.mod].connected
    /\ sessions[obs.read.mod].protocol.connected

\* the index in frames of the first frame 0x1N long enough to carry a length
FirstLengthFrame(frames) ==
    CHOOSE i \in 1 .. Len(frames) :
        /\ HighNibble(frames[i][1]) = 16 /\ Len(frames[i]) >= 4
        /\ \A j \in 1 .. (i - 1) :
              ~(HighNibble(frames[j][1]) = 16 /\ Len(frames[j]) >= 4)

\* the length that frame declares in bytes 1 and 2
DeclaredLength(frames) ==
    frames[FirstLengthFrame(frames)][2] * 256 + frames[FirstLengthFrame(frames)][3]

\* a request that returned a response
Answered == chan_op.op = "request" /\ chan_op.ret = "none"

\* C23: no request returns an empty response; a response that declares
\* length 0 fails the request.
C23_EmptyResponseIsError ==
    Answered => chan_op.resp # << >>

\* C30: a response that is returned has the length its first length-carrying
\* frame declares.
C30_ResponseHasDeclaredLength ==
    (Answered /\ chan_op.pre.connected)
        => Len(chan_op.resp) = DeclaredLength(Tail(chan_op.rx))

\* C24: decode_block returns floor(len / 3) items; item i is the decoding
\* of the bytes 3i, 3i+1, 3i+2 (counted from 0), its type is byte 3i, and a
\* trailing remainder of one or two bytes yields nothing.
C24_BlockDecodesWholeTriplets ==
    (coding.call = "block" /\ coding.returned) =>
        /\ Len(coding.items) = Len(coding.raw) \div 3
        /\ \A i \in 1 .. Len(coding.items) :
              /\ coding.items[i].type = coding.raw[3 * i - 2]
              /\ coding.items[i] = DecodeValue(coding.raw[3 * i - 2],
                                               coding.raw[3 * i - 1],
                                               coding.raw[3 * i])

C24_WitnessRemainderDropped ==
    /\ coding.call = "block" /\ coding.returned
    /\ Len(coding.raw) = 5
    /\ Len(coding.items) = 1

\* C25: decode_value returns one item for every type and operands; type 33
\* with a = 0 gives 100 * b in %, a type without a formula gives the string
\* 0x followed by the two hex digits of a and of b with the unit Type_<t>,
\* a type with a formula gives that formula's unit, and the item is a
\* function of (type, a, b).
C25_DecodeValueTotal ==
    (coding.call = "value" /\ coding.returned) =>
        \E t \in {coding.raw[1]}, a \in {coding.raw[2]}, b \in {coding.raw[3]} :
            /\ Len(coding.items) = 1
            /\ coding.items[1].type = t
            /\ coding.items[1] = DecodeValue(t, a, b)
            /\ (t = 33 /\ a = 0) =>
                  /\ coding.items[1].value = 100 * (100 * b)
                  /\ coding.items[1].unit = << "%" >>
            /\ t \notin TableTypes =>
                  /\ coding.items[1].text = << "0", "x" >> \o HexByte(a) \o HexByte(b)
                  /\ Len(coding.items[1].text) = 6
                  /\ coding.items[1].unit = << TYPE_UNIT >> \o DecStr(t)
            /\ t \in TableTypes =>
                  /\ Len(coding.items[1].unit) = 1
                  /\ coding.items[1].unit[1] \notin {"", TYPE_UNIT}
                  /\ t # 36 => coding.items[1].text = << >>

C25_WitnessZeroDivisor ==
    /\ coding.call = "value" /\ coding.returned
    /\ coding.raw = << 33, 0, 255 >>
    /\ coding.items[1].value = 2550000

\* a tick that read a sample and whose publisher failed to emit it
PublishFailed(o) == o.read.result = "ok" /\ o.pub = NoPub

\* C26: a tick whose publisher fails leaves its session connected with its
\* channel open, moves the cursor on as a published sample does, and the
\* pass goes on.
C26_PublisherFailureHarmless ==
    [][(pc = "poll" /\ PublishFailed(obs'))
          => \E m \in {Head(todo)} :
                /\ sessions'[m].connected
                /\ sessions'[m].protocol.bus
                /\ sessions'[m].idx =
                      Advance(ClampIdx(sessions[m].idx, Len(sessions[m].groups_list)),
                              Len(sessions[m].groups_list))
                /\ todo' = Tail(todo)]_vars

\* what the sessions subscribe to
Groups(sess_map) ==
    [m \in DOMAIN sess_map |->
        [subs |-> sess_map[m].subs, groups_list |-> sess_map[m].groups_list]]

\* C27: a step in which an error reached the handler of the loop leaves the
\* loop at the start of its next pass, with the sessions it had, in the
\* order they had, each with the subscriptions it had.
C27_LoopSurvivesErrors ==
    [][obs'.recovered
          => /\ pc' = "ignition"
             /\ order' = order
             /\ DOMAIN sessions' = DOMAIN sessions
             /\ Groups(sessions') = Groups(sessions)
             /\ running' = running]_vars

C27_WitnessRecoveredWithGroups ==
    /\ obs.recovered
    /\ obs.read.result = "crash"
    /\ pc = "ignition"
    /\ HasGroups(sessions)

\* C28: in a pass, the step of a session that is not the last of the
\* snapshot is followed by the steps of the sessions after it.
C28_PassVisitsWholeSnapshot ==
    [][(pc = "poll" /\ Tail(todo) # << >>)
          => (pc' = "poll" /\ todo' = Tail(todo))]_vars

\* C29: after a connect that reported failure the channel is not connected.
C29_FailedConnectLeavesUnconnected ==
    (chan_op.op = "connect" /\ chan_op.ret = "false") => ~chan.connected

\* ---- reassembly of a split response -------------------------------------
\* frames that all carry data (header 0x1N or 0x2N), the last one 0x1N
DataFrames(frames) ==
    /\ frames # << >>
    /\ \A i \in 1 .. Len(frames) : HighNibble(frames[i][1]) \in {16, 32}
    /\ HighNibble(frames[Len(frames)][1]) = 16

\* the bytes after byte 0 of each frame, in order
RECURSIVE Payloads(_)
Payloads(frames) ==
    IF frames = << >> THEN << >>
    ELSE From(Head(frames), 1) \o Payloads(Tail(frames))

\* the message data frames carry when the first one holds the length in
\* bytes 1-2 and payload from byte 3, and the later ones payload from byte 1
SplitMessage(frames) == From(Head(frames), 3) \o Payloads(Tail(frames))

\* an acknowledged request answered by data frames that carry, read that
\* way, exactly as many bytes as the first one declares
SplitAnswered ==
    /\ chan_op.op = "request"
    /\ chan_op.pre.connected /\ chan_op.pre.bus
    /\ chan_op.rx # << >>
    /\ WaitAck(chan_op.pre.seq_tx, Head(chan_op.rx))
    /\ DataFrames(Tail(chan_op.rx))
    /\ Len(chan_op.rx[2]) >= 4
    /\ Len(SplitMessage(Tail(chan_op.rx))) = chan_op.rx[2][2] * 256 + chan_op.rx[2][3]

\* C31: a response whose first data frame (0x1N or 0x2N) holds the length
\* and payload from byte 3 and whose later data frames hold payload from
\* byte 1 is returned as the message those frames carry.
C31_SplitResponseReassembled ==
    SplitAnswered
        => chan_op.ret = "none" /\ chan_op.resp = SplitMessage(Tail(chan_op.rx))

\* ---- the ACK of a request -----------------------------------------------
\* a request sent on a connected channel to which the ECU sent, among the
\* frames on the rx id, the ACK the request expects
AckArrived ==
    /\ chan_op.op = "request"
    /\ chan_op.pre.connected /\ chan_op.pre.bus
    /\ chan_ack.sent
    /\ \E i \in 1 .. Len(chan_op.rx) :
          chan_op.rx[i][1] = ExpectedAck(chan_op.pre.seq_tx)

\* C32: a request whose ACK arrives is not failed for lack of an ACK, also
\* when another frame (wait, keep-alive, late data) arrives before the ACK.
C32_StrayFrameBeforeAckTolerated ==
    AckArrived => chan_ack.accepted

\* C33: every request ends: the reassembly loop, once entered, returns a
\* response or raises an error.
C33_RequestTerminates ==
    reading.active ~> ~reading.active

\* ---- failures in a row ---------------------------------------------------
\* C34: once a session's reads have failed five times in a row, its
\* channel is disconnected and the session is not connected, so that the
\* next tick sets the channel up again.
C34_FiveFailuresForceSetup ==
    streak.n >= 5
        => /\ ~sessions[streak.mod].connected
           /\ ~sessions[streak.mod].protocol.connected

\* ---- what is published ---------------------------------------------------
\* the ReadBlock of the tick returned a response 61 <group requested> ...
Qualifies(o) ==
    /\ o.read.result # "none"
    /\ Len(o.read.resp) >= 2
    /\ o.read.resp[1] = READ_BLOCK_OK
    /\ o.read.resp[2] = o.read.grp

\* the group a tick of session sess requests
Requested(sess) == sess.groups_list[ClampIdx(sess.idx, Len(sess.groups_list)) + 1]

C36_CursorAdvancesEveryTick ==
    [][(pc = "poll" /\ ~obs'.recovered
        /\ obs'.read.result \in {"ok", "negative", "tp2error", "other"})
          => \E m \in {Head(todo)} :
                \E n \in {Len(sessions[m].groups_list)} :
                   sessions'[m].idx = (ClampIdx(sessions[m].idx, n) + 1) % n]_vars

\* ---- commands and the bus ------------------------------------------------
\* C37: handling a command sends no frame on the bus.
C37_CommandsSendNoFrame ==
    obs.cmd.cmd # "none" => obs.tx = << >>

\* ---- tester ids ----------------------------------------------------------
\* C38: the sessions hold the tester ids 0x300, 0x301, ... in the order of
\* their creation, and the channel of each listens on the id of its session.
C38_TesterIdsInCreationOrder ==
    \A i \in 1 .. Len(order) :
       /\ sessions[order[i]].tester_id = FIRST_TESTER_ID + (i - 1)
       /\ sessions[order[i]].protocol.tester_id = sessions[order[i]].tester_id
       /\ sessions[order[i]].protocol.connected
             => sessions[order[i]].protocol.rx_id = sessions[order[i]].tester_id

\* no two sessions hold the same tester id
TesterIdsDistinct ==
    \A m1, m2 \in DOMAIN sessions :
       m1 # m2 => sessions[m1].tester_id # sessions[m2].tester_id

\* ---- the disabled service ------------------------------------------------
\* every frame in frames is the disconnect [0xA8]
OnlyDisconnects(frames) ==
    \A i \in 1 .. Len(frames) : frames[i].data = << DISCONNECT_OP >>

\* C39: a session is stepped only while the service is enabled, and a step
\* that leaves the service disabled issues no ReadBlock, publishes no
\* sample, sends no frame but disconnects [0xA8], sets no channel up and
\* sends no request on any channel.
C39_DisabledStepsNoSession ==
    /\ [](pc = "poll" => running)
    /\ [][~running'
             => /\ pc # "poll"
                /\ obs'.read = NoRead
                /\ obs'.pub = NoPub
                /\ OnlyDisconnects(obs'.tx)
                /\ \A m \in DOMAIN sessions \cap DOMAIN sessions' :
                      /\ sessions'[m].protocol.seq_tx = sessions[m].protocol.seq_tx
                      /\ sessions'[m].protocol.connected
                            => sessions[m].protocol.connected
                      /\ sessions'[m].connected => sessions[m].connected]_vars

\* C39 witness: the service is disabled, the disabling step sent the
\* disconnect of a session that was connected, and the session is still
\* subscribed
C39_WitnessDisabledWithSession ==
    /\ ~running
    /\ obs.tx = << Frame(1856, << DISCONNECT_OP >>) >>
    /\ 1 \in DOMAIN sessions
    /\ sessions[1].groups_list # << >>
    /\ ~sessions[1].connected

\* ---- the two connected flags ---------------------------------------------
\* C40: between two passes of the loop the connected flag of every session
\* equals the connected flag of its channel.
C40_ConnectedFlagsAgree ==
    pc = "ignition"
        => \A m \in DOMAIN sessions :
              sessions[m].connected = sessions[m].protocol.connected

=============================================================================
